---- MODULE Spec2Model ----
(***************************************************************************)
(* Bark engine: the Override method interceptor, the entity script         *)
(* lifecycle, and the scene's pixel collision grid with its per-frame      *)
(* update.  Translated from src/engine/engine.js, src/engine/entities.js   *)
(* and the Scene class (src/unnamed/part_006).                             *)
(*                                                                         *)
(* The module holds several specifications over one set of variables; each *)
(* leaves the variables of the other subsystems as constructed.            *)
(*   SpecOverride : Override.before / after / replace and method calls     *)
(***************************************************************************)
EXTENDS Integers, Sequences, FiniteSets, TLC

VARIABLES
    \* ---- Override subsystem (engine.js 297-376) ----
    target,      \* the properties of the one target entity object that Override touches
    nextOid,     \* identity of the next function object created (bind / function expression)
    regs,        \* history: per property name, the successful registrations in order
    lastOp,      \* history: the last before/after/replace call, its inputs, result, pre-state
    lastCall,    \* history: the last call target[name](...args): callee log and result
    opCount,     \* number of Override operations performed (bounded)
    \* ---- Scene: map and collision grid (part_006 4-191) ----
    map,           \* Scene.map: the visual map image, or NoImage
    mapWidth,      \* Scene.mapWidth
    mapHeight,     \* Scene.mapHeight
    collisionData, \* Scene.collisionData: NoData, or the Uint8Array as a sequence
    gridImage,     \* history: the collision image collisionData was generated from
    loads,         \* the loadMap calls whose images are still loading
    loadCount,     \* number of loadMap calls made (bounded)
    lastSettled,   \* history: how the last settled loadMap promise ended
    lastQuery,     \* history: the last collision query, its arguments and result
    \* ---- Scene state and entities (part_006 15-24, entities.js 4-47, 265-300) ----
    isActive,      \* Scene.isActive
    isPaused,      \* Scene.isPaused
    sceneEntities, \* Scene.entities: the Set, in insertion order
    ents,          \* the fields of each entity
    frame,         \* history: what the last Scene.update did, in order
    tickCount,     \* number of Scene.update calls made (bounded)
    \* ---- Script registry and lifecycle (engine.js 30-31, 52-105, entities.js 45, 54-104) ----
    engineScripts, \* Engine.scripts: names with a registered class
    scriptCache,   \* Engine.scriptCache: names with a cached module
    entScripts,    \* Entity.scripts of each entity: the Map, in insertion order
    instInfo,      \* every behaviour instance constructed so far, with its hook call counts
    procs,         \* the attachScript / detachScript calls made, each with its position
    \* ---- Engine: game loop, pause keys, entity registry (engine.js 5-45, 110-222, 263-286) ----
    isRunning,     \* Engine.isRunning
    debugEnabled,  \* Engine.debug.enabled
    keyListeners,  \* the keydown listeners initializeSystems has registered
    pendingNext,   \* gameLoop callbacks requested for the next animation frame
    pendingNow,    \* gameLoop callbacks of the frame being dispatched, not yet run
    runsThisFrame, \* history: calls of Engine.update in the frame dispatched last
    windowGlobals, \* whether main.js 2-4 has run: window.mainCamera and window.engine are set
    engineEntities, \* Engine.entities: the Map from id to entity
    lastEngineOp   \* history: the last pause, key or entity-registry operation and its pre-state

ovVars == <<target, nextOid, regs, lastOp, lastCall, opCount>>
gridVars == <<map, mapWidth, mapHeight, collisionData, gridImage, loads, loadCount,
              lastSettled>>
sceneVars == <<isActive, isPaused, sceneEntities, ents, frame, tickCount>>
scriptVars == <<engineScripts, scriptCache, entScripts, instInfo, procs>>
loopVars == <<isRunning, debugEnabled, keyListeners, pendingNext, pendingNow, runsThisFrame,
              windowGlobals, engineEntities, lastEngineOp>>
vars == <<ovVars, gridVars, lastQuery, sceneVars, scriptVars, loopVars>>

----------------------------------------------------------------------------
\* Bounds of the model
MaxOps == 3          \* Override operations per behaviour
MaxLoads == 2        \* loadMap calls
SubPixels == 2       \* positions are fixed-point: SubPixels units per pixel
MaxTicks == 2        \* Scene.update calls
MaxCalls == 3        \* attachScript / detachScript calls
PlayerSpeed == 2     \* Player.speed, scaled to the small maps (units per time unit)
PlayerSize == 1      \* side of the Player's collider in pixels, scaled to the small maps
SteerVelocity == 1   \* the velocityX a Steer behaviour sets
MoverSpeed == 1      \* the speed of a Mover behaviour
WallFar == 12        \* the wall scenario stops once the entity is this many pixels out
MaxStep == 3         \* largest velocity in the wall scenario
MaxWallTicks == 12
MaxPending == 3      \* gameLoop callbacks requested and not yet run
MaxListeners == 2    \* calls of initializeSystems, the constructor's included

----------------------------------------------------------------------------
\* JavaScript values, as far as Override distinguishes them

Undefined == [kind |-> "undefined"]
Null == [kind |-> "null"]
NumberVal == [kind |-> "number"]
PlainFn(id) == [kind |-> "fn", id |-> id]

\* typeof v === 'function'
IsFunction(v) == v.kind \in {"fn", "bound", "wrapBefore", "wrapAfter"}

\* Function.prototype.bind: a new function object that fixes `this`
Bind(f, thisObj, oid) == [kind |-> "bound", oid |-> oid, fn |-> f, this |-> thisObj]

\* The entity under interception and the behaviour instances that own hooks.
TheEntity == "entity"
NoEntity == "null"
Instances == {"inst1", "inst2"}

\* an Override object: constructor(entity, instance)
Overrides == [entity : {TheEntity}, instance : Instances]
                 \cup [entity : {NoEntity}, instance : {"inst1"}]

\* `this.instance` evaluated inside a wrapper: the wrapper is bound to the entity,
\* and an Entity has no `instance` property.
InstanceOf(obj) == "undefined"

\* Property names handed to Override.  "render" and "update" are methods of the
\* entity, "x" is a numeric field, "nope" is no property; "#42" stands for the
\* number 42 handed in as functionName (typeof !== 'string').
MethodNames == {"render", "update"}
PropNames == MethodNames \cup {"x"}
NameInputs == PropNames \cup {"nope", "#42"}
IsString(n) == n # "#42"

\* hook functions handed to before/after/replace: a behaviour hands in its own
\* methods (override.after('render', this.render))
HooksOf(inst) == IF inst = "inst1" THEN {"g1"} ELSE {"g2"}

\* argument lists of a call
ArgLists == {<<"ctx">>, <<"dt", "extra">>}

\* the value a plain function returns
ReturnOf(id) == <<"result", id>>

\* target[name]
Get(tgt, name) == IF name \in DOMAIN tgt THEN tgt[name] ELSE Undefined

\* Entity as constructed: methods from the prototype, x a number
TargetInit == [p \in PropNames |-> IF p \in MethodNames THEN PlainFn(p) ELSE NumberVal]

----------------------------------------------------------------------------
\* Override.getFunctionByName (engine.js 303-314)

GetFunctionByName_NoBind(ent, functionName, tgt, oid) ==
    IF ent = NoEntity \/ ~IsString(functionName)
    THEN Null
    ELSE LET fn == Get(tgt, functionName)
         IN IF IsFunction(fn) THEN fn ELSE Null

GetFunctionByName_NoTypeCheck(ent, functionName, tgt, oid) ==
    IF ent = NoEntity \/ ~IsString(functionName)
    THEN Null
    ELSE Bind(Get(tgt, functionName), ent, oid)

GetFunctionByName(ent, functionName, tgt, oid) ==
    IF ent = NoEntity \/ ~IsString(functionName)
    THEN Null
    ELSE LET fn == Get(tgt, functionName)
         IN IF IsFunction(fn) THEN Bind(fn, ent, oid) ELSE Null

\* the function expressions of before() and after(): closures over boundNewFn and
\* originalFn; their bodies are evaluated by Apply
BeforeWrapper_HookLast(boundNewFn, originalFn, oid) ==
    [kind |-> "wrapAfter", oid |-> oid, hook |-> boundNewFn, orig |-> originalFn]

BeforeWrapper(boundNewFn, originalFn, oid) ==
    [kind |-> "wrapBefore", oid |-> oid, hook |-> boundNewFn, orig |-> originalFn]

AfterWrapper_HookFirst(boundNewFn, originalFn, oid) ==
    [kind |-> "wrapBefore", oid |-> oid, hook |-> boundNewFn, orig |-> originalFn]

AfterWrapper(boundNewFn, originalFn, oid) ==
    [kind |-> "wrapAfter", oid |-> oid, hook |-> boundNewFn, orig |-> originalFn]

\* the value replace() stores: fn.bind(this.instance)
Replacement_BoundToEntity(fn, ov, oid) == Bind(fn, ov.entity, oid)

Replacement(fn, ov, oid) == Bind(fn, ov.instance, oid)

\* f.apply(thisArg, args): the calls of plain functions it makes, in order, and
\* the value it returns
RECURSIVE Apply(_, _, _)
Apply(f, thisArg, args) ==
    CASE f.kind = "fn" ->
            [log |-> << [fn |-> f.id, this |-> thisArg, args |-> args] >>,
             ret |-> ReturnOf(f.id)]
      [] f.kind = "bound" -> Apply(f.fn, f.this, args)
      [] f.kind = "wrapBefore" ->
            \* boundNewFn.apply(this.instance, args); return originalFn.apply(this.instance, args)
            LET h == Apply(f.hook, InstanceOf(thisArg), args)
                o == Apply(f.orig, InstanceOf(thisArg), args)
            IN [log |-> h.log \o o.log, ret |-> o.ret]
      [] f.kind = "wrapAfter" ->
            \* result = originalFn.apply(...); boundNewFn.apply(...); return result
            LET o == Apply(f.orig, InstanceOf(thisArg), args)
                h == Apply(f.hook, InstanceOf(thisArg), args)
            IN [log |-> o.log \o h.log, ret |-> o.ret]

NoOp == [op |-> "none"]
NoCall == [name |-> "none"]

\* bookkeeping shared by the three operations
Registered(op, ov, functionName, fn, pre, ok) ==
    /\ lastOp' = [op |-> op, ov |-> ov, name |-> functionName, hook |-> fn,
                  ret |-> ok, pre |-> pre]
    /\ regs' = IF ok
               THEN [regs EXCEPT ![functionName] =
                        Append(@, [op |-> op, hook |-> fn, instance |-> ov.instance,
                                   prev |-> pre[functionName]])]
               ELSE regs
    /\ lastCall' = NoCall
    /\ opCount' = opCount + 1

\* Override.before (engine.js 322-336)
OverrideBefore(ov, functionName, fn) ==
    /\ opCount < MaxOps
    /\ LET originalFn == GetFunctionByName(ov.entity, functionName, target, nextOid)
       IN IF originalFn = Null
          THEN /\ UNCHANGED <<target, nextOid>>
               /\ Registered("before", ov, functionName, fn, target, FALSE)
          ELSE LET boundNewFn == Bind(PlainFn(fn), ov.instance, nextOid + 1)
                   wrapper == BeforeWrapper(boundNewFn, originalFn, nextOid + 2)
               IN /\ target' = [target EXCEPT ![functionName] =
                                    Bind(wrapper, ov.entity, nextOid + 3)]
                  /\ nextOid' = nextOid + 4
                  /\ Registered("before", ov, functionName, fn, target, TRUE)

\* Override.replace (engine.js 344-353)
OverrideReplace(ov, functionName, fn) ==
    /\ opCount < MaxOps
    /\ LET originalFn == GetFunctionByName(ov.entity, functionName, target, nextOid)
       IN IF originalFn = Null
          THEN /\ UNCHANGED <<target, nextOid>>
               /\ Registered("replace", ov, functionName, fn, target, FALSE)
          ELSE /\ target' = [target EXCEPT ![functionName] =
                                 Replacement(PlainFn(fn), ov, nextOid + 1)]
               /\ nextOid' = nextOid + 2
               /\ Registered("replace", ov, functionName, fn, target, TRUE)

\* Override.after (engine.js 361-376)
OverrideAfter(ov, functionName, fn) ==
    /\ opCount < MaxOps
    /\ LET originalFn == GetFunctionByName(ov.entity, functionName, target, nextOid)
       IN IF originalFn = Null
          THEN /\ UNCHANGED <<target, nextOid>>
               /\ Registered("after", ov, functionName, fn, target, FALSE)
          ELSE LET boundNewFn == Bind(PlainFn(fn), ov.instance, nextOid + 1)
                   wrapper == AfterWrapper(boundNewFn, originalFn, nextOid + 2)
               IN /\ target' = [target EXCEPT ![functionName] =
                                    Bind(wrapper, ov.entity, nextOid + 3)]
                  /\ nextOid' = nextOid + 4
                  /\ Registered("after", ov, functionName, fn, target, TRUE)

\* a caller invokes entity[name](...args), e.g. the camera calling entity.render(ctx)
CallMethod(name, args) ==
    /\ IsFunction(Get(target, name))
    /\ LET r == Apply(target[name], TheEntity, args)
       IN lastCall' = [name |-> name, args |-> args, log |-> r.log, ret |-> r.ret]
    /\ UNCHANGED <<target, nextOid, regs, lastOp, opCount>>

InitOverride ==
    /\ target = TargetInit
    /\ nextOid = 1
    /\ regs = [p \in PropNames |-> << >>]
    /\ lastOp = NoOp
    /\ lastCall = NoCall
    /\ opCount = 0

----------------------------------------------------------------------------
\* Scene: images, loadMap, generateCollisionData, checkCollision

\* Math.floor of a fixed-point coordinate, in pixels
Floor(v) == v \div SubPixels

\* RGBA pixels of collision images: pure red, black, the three near misses of the
\* threshold, and a red pixel that is fully transparent
Red == <<255, 0, 0, 255>>
Black == <<0, 0, 0, 255>>
DimRed == <<200, 0, 0, 255>>
RedGreen == <<255, 10, 0, 255>>
RedBlue == <<255, 0, 10, 255>>
ClearRed == <<201, 9, 9, 0>>

RedMin == 200
OtherMax == 10

\* isRed (part_006 100)
IsRedPixel_Inclusive(p) == p[1] >= RedMin /\ p[2] <= OtherMax /\ p[3] <= OtherMax

IsRedPixel(p) == p[1] > RedMin /\ p[2] < OtherMax /\ p[3] < OtherMax

Uniform(w, h, colour) == [w |-> w, h |-> h, px |-> [i \in 1..(w * h) |-> colour]]

\* the collision images a map source can decode to
AllRedImage == Uniform(2, 2, Red)
AllBlackImage == Uniform(2, 2, Black)
MixedImage == [w |-> 3, h |-> 2, px |-> <<Red, DimRed, ClearRed, RedGreen, Black, RedBlue>>]
CollisionImages == {AllRedImage, AllBlackImage, MixedImage}

\* the visual map images: only their dimensions are read
MapImages == {[w |-> 2, h |-> 2], [w |-> 3, h |-> 2]}

NoImage == [w |-> 0, h |-> 0]
NoData == << -1 >>

\* generateCollisionData (part_006 78-103): one byte per pixel of the collision image
GenerateCollisionData(img) ==
    [i \in 1..(img.w * img.h) |-> IF IsRedPixel(img.px[i]) THEN 1 ELSE 0]

\* collisionData[index]: undefined (here -1) beyond the array
ByteAt(data, index) == IF index + 1 \in DOMAIN data THEN data[index + 1] ELSE -1

\* Scene.checkCollision (part_006 111-123)
CheckCollisionIn_NoNullGuard(data, width, height, x, y) ==
    LET fx == Floor(x)
        fy == Floor(y)
    IN IF fx < 0 \/ fx >= width \/ fy < 0 \/ fy >= height
       THEN TRUE
       ELSE ByteAt(data, fy * width + fx) = 1

CheckCollisionIn(data, width, height, x, y) ==
    IF data = NoData THEN FALSE
    ELSE LET fx == Floor(x)
             fy == Floor(y)
         IN IF fx < 0 \/ fx >= width \/ fy < 0 \/ fy >= height
            THEN TRUE
            ELSE ByteAt(data, fy * width + fx) = 1

CheckCollision(x, y) == CheckCollisionIn(collisionData, mapWidth, mapHeight, x, y)

\* one loadMap call in flight: the two Image objects and the closure's counter
NewLoad == [mapImg |-> "loading", collisionImg |-> "loading", decoded |-> NoImage,
            mapsLoaded |-> 0, promise |-> "pending"]

RemoveAt(s, i) == SubSeq(s, 1, i - 1) \o SubSeq(s, i + 1, Len(s))

\* a call whose two images have both fired their event has nothing left to do
Settle(ls, i) ==
    IF ls[i].mapImg # "loading" /\ ls[i].collisionImg # "loading" THEN RemoveAt(ls, i) ELSE ls

\* Scene.loadMap (part_006 36-71): creates the images and starts loading both
LoadMap ==
    /\ loadCount < MaxLoads
    /\ loads' = Append(loads, NewLoad)
    /\ loadCount' = loadCount + 1
    /\ lastQuery' = [op |-> "none"]
    /\ UNCHANGED <<map, mapWidth, mapHeight, collisionData, gridImage, lastSettled>>

\* checkBothLoaded (part_006 43-50) of call i, whose collision image decodes to img
CheckBothLoaded(i, ld, img) ==
    LET n == ld.mapsLoaded + 1
        done == [ld EXCEPT !.mapsLoaded = n,
                           !.promise = IF n = 2 THEN "resolved" ELSE @]
    IN /\ IF n = 2
          THEN /\ collisionData' = GenerateCollisionData(img)
               /\ gridImage' = img
               /\ lastSettled' = "resolved"
          ELSE UNCHANGED <<collisionData, gridImage, lastSettled>>
       /\ loads' = Settle([loads EXCEPT ![i] = done], i)

\* mapImg.onload (part_006 53-58)
MapImgOnload(i, img) ==
    /\ i \in DOMAIN loads
    /\ loads[i].mapImg = "loading"
    /\ map' = img
    /\ mapWidth' = img.w
    /\ mapHeight' = img.h
    /\ CheckBothLoaded(i, [loads[i] EXCEPT !.mapImg = "loaded"], loads[i].decoded)
    /\ lastQuery' = [op |-> "none"]
    /\ UNCHANGED loadCount

\* collisionImg.onload (part_006 62-64)
CollisionImgOnload(i, img) ==
    /\ i \in DOMAIN loads
    /\ loads[i].collisionImg = "loading"
    /\ CheckBothLoaded(i, [loads[i] EXCEPT !.collisionImg = "loaded", !.decoded = img], img)
    /\ lastQuery' = [op |-> "none"]
    /\ UNCHANGED <<map, mapWidth, mapHeight, loadCount>>

\* mapImg.onerror = reject / collisionImg.onerror = reject (part_006 59, 65)
ImgOnerror(i, which) ==
    /\ i \in DOMAIN loads
    /\ loads[i][which] = "loading"
    /\ LET ld == [loads[i] EXCEPT ![which] = "error",
                                  !.promise = IF @ = "pending" THEN "rejected" ELSE @]
       IN /\ loads' = Settle([loads EXCEPT ![i] = ld], i)
          /\ lastSettled' = IF loads[i].promise = "pending" THEN "rejected" ELSE lastSettled
    /\ lastQuery' = [op |-> "none"]
    /\ UNCHANGED <<map, mapWidth, mapHeight, collisionData, gridImage, loadCount>>

\* the coordinates queried: whole and fractional, inside and outside a 3 x 2 map
QueryXs == {-1, 0, 3 * SubPixels} \cup {p * SubPixels + (SubPixels - 1) : p \in 0..2}
QueryYs == {-1, 0, 2 * SubPixels} \cup {p * SubPixels + (SubPixels - 1) : p \in 0..1}

\* a caller asks checkCollision(x, y)
QueryPoint(x, y) ==
    /\ lastQuery' = [op |-> "point", x |-> x, y |-> y, result |-> CheckCollision(x, y)]
    /\ UNCHANGED gridVars

InitGrid ==
    /\ map = NoImage
    /\ mapWidth = 0
    /\ mapHeight = 0
    /\ collisionData = NoData
    /\ gridImage = NoImage
    /\ loads = << >>
    /\ loadCount = 0
    /\ lastSettled = "none"
    /\ lastQuery = [op |-> "none"]

----------------------------------------------------------------------------
\* Entities and the per-frame update

EntityIds == {"e1", "p1"}

NoInput == [up |-> FALSE, down |-> FALSE, left |-> FALSE, right |-> FALSE]

\* new Entity(x, y) (entities.js 5-47); speed and input are Player fields
NewEntity(x, y) ==
    [cls |-> "Entity", x |-> x, y |-> y, velocityX |-> 0, velocityY |-> 0,
     active |-> TRUE, solid |-> FALSE,
     cbWidth |-> 0, cbHeight |-> 0, cbOffX |-> 0, cbOffY |-> 0,
     onCollision |-> "none", speed |-> 0, input |-> NoInput]

\* new Player(x, y) (entities.js 266-300): solid, a centred square collider
NewPlayer(x, y) ==
    [NewEntity(x, y) EXCEPT !.cls = "Player", !.solid = TRUE, !.speed = PlayerSpeed,
                            !.cbWidth = PlayerSize * SubPixels,
                            !.cbHeight = PlayerSize * SubPixels,
                            !.cbOffX = 0 - ((PlayerSize * SubPixels) \div 2),
                            !.cbOffY = 0 - ((PlayerSize * SubPixels) \div 2)]

\* Scene.checkRectCollision (part_006 133-158): the perimeter of the floored rectangle
CheckRectCollisionIn(data, mw, mh, x, y, width, height) ==
    IF data = NoData THEN FALSE
    ELSE LET fx == Floor(x)
             fy == Floor(y)
             fw == Floor(width)
             fh == Floor(height)
             Hit(px, py) == CheckCollisionIn(data, mw, mh, px * SubPixels, py * SubPixels)
         IN \/ \E i \in fx..(fx + fw - 1) : Hit(i, fy) \/ Hit(i, fy + fh - 1)
            \/ \E i \in fy..(fy + fh - 1) : Hit(fx, i) \/ Hit(fx + fw - 1, i)

CheckRectCollision(x, y, width, height) ==
    CheckRectCollisionIn(collisionData, mapWidth, mapHeight, x, y, width, height)

\* the pixels the two loops of checkRectCollision pass to checkCollision, in order
\* (part_006 144-155): (i, y), (i, y + height - 1) for each column, then
\* (x, i), (x + width - 1, i) for each row
RectProbes(fx, fy, fw, fh) ==
    LET cols == IF fw > 0 THEN fw ELSE 0
        rows == IF fh > 0 THEN fh ELSE 0
    IN [k \in 1..(2 * cols + 2 * rows) |->
          IF k <= 2 * cols
          THEN << fx + (k - 1) \div 2, IF k % 2 = 1 THEN fy ELSE fy + fh - 1 >>
          ELSE LET j == k - 2 * cols
               IN << IF j % 2 = 1 THEN fx ELSE fx + fw - 1, fy + (j - 1) \div 2 >>]

\* the probes actually made: `return true` at the first occupied one ends the call
RectExamined(data, mw, mh, x, y, width, height) ==
    IF data = NoData THEN << >>
    ELSE LET probes == RectProbes(Floor(x), Floor(y), Floor(width), Floor(height))
             hits == {k \in DOMAIN probes :
                        CheckCollisionIn(data, mw, mh, probes[k][1] * SubPixels,
                                         probes[k][2] * SubPixels)}
         IN IF hits = {} THEN probes
            ELSE SubSeq(probes, 1, CHOOSE k \in hits : \A m \in hits : k <= m)

\* a caller asks checkRectCollision(x, y, width, height)
QueryRect(x, y, width, height) ==
    /\ lastQuery' = [op |-> "rect", x |-> x, y |-> y, width |-> width, height |-> height,
                     result |-> CheckRectCollision(x, y, width, height),
                     examined |-> RectExamined(collisionData, mapWidth, mapHeight,
                                               x, y, width, height)]
    /\ UNCHANGED gridVars

\* Math.max and Math.min of two integers
MathMax(a, b) == IF a >= b THEN a ELSE b
MathMin(a, b) == IF a <= b THEN a ELSE b

\* the pixels the two nested loops of getCollisionPixelsInArea visit, in order
\* (part_006 181-182): rows startY..endY, and in each row columns startX..endX
AreaCells(startX, startY, endX, endY) ==
    IF endX < startX \/ endY < startY THEN << >>
    ELSE LET cols == endX - startX + 1
             rows == endY - startY + 1
         IN [k \in 1..(cols * rows) |->
                << startX + ((k - 1) % cols), startY + ((k - 1) \div cols) >>]

\* Scene.getCollisionPixelsInArea (part_006 168-191): x, y, width and height are
\* fixed-point, the result is the list of pixels pushed
GetCollisionPixelsInAreaIn(data, mw, mh, x, y, width, height) ==
    LET fx == Floor(x)
        fy == Floor(y)
        fw == Floor(width)
        fh == Floor(height)
        startX == MathMax(0, fx)
        startY == MathMax(0, fy)
        endX == MathMin(mw - 1, fx + fw)
        endY == MathMin(mh - 1, fy + fh)
        Solid(p) == CheckCollisionIn(data, mw, mh, p[1] * SubPixels, p[2] * SubPixels)
    IN SelectSeq(AreaCells(startX, startY, endX, endY), Solid)

GetCollisionPixelsInArea(x, y, width, height) ==
    GetCollisionPixelsInAreaIn(collisionData, mapWidth, mapHeight, x, y, width, height)

\* a caller asks getCollisionPixelsInArea(x, y, width, height)
QueryArea(x, y, width, height) ==
    /\ lastQuery' = [op |-> "area", x |-> x, y |-> y, width |-> width, height |-> height,
                     result |-> GetCollisionPixelsInArea(x, y, width, height)]
    /\ UNCHANGED gridVars

\* the entity's collision rectangle against the map
\* (Player.checkCollision, entities.js 393-412; Scene.update, part_006 274-284)
EntityCollides(ent) ==
    CheckRectCollision(ent.x + ent.cbOffX, ent.y + ent.cbOffY, ent.cbWidth, ent.cbHeight)

\* The behaviour modules.  ExampleScript, PlayerController and EnemyShooter are the
\* repository's;
\* Steer and Mover are user behaviours whose update writes the entity's velocity
\* or position (as scripts/Projectile.js does); Spawner's update adds an entity
\* to the scene with Scene.addEntity; BadInit's init rejects and BadDetach's
\* onDetach rejects; Missing has no file and NoDefault no default export.
ScriptModule(name) ==
    CASE name = "ExampleScript" ->
            [fetch |-> "ok", ctor |-> "ok", init |-> "async", update |-> "none", onDetach |-> "async"]
      [] name = "PlayerController" ->
            [fetch |-> "ok", ctor |-> "ok", init |-> "sync", update |-> "none", onDetach |-> "sync"]
      [] name = "EnemyShooter" ->
            [fetch |-> "ok", ctor |-> "ok", init |-> "async", update |-> "none", onDetach |-> "absent"]
      [] name = "Steer" ->
            [fetch |-> "ok", ctor |-> "ok", init |-> "absent", update |-> "steer", onDetach |-> "absent"]
      [] name = "Mover" ->
            [fetch |-> "ok", ctor |-> "ok", init |-> "sync", update |-> "move", onDetach |-> "absent"]
      [] name = "Spawner" ->
            [fetch |-> "ok", ctor |-> "ok", init |-> "absent", update |-> "spawn", onDetach |-> "absent"]
      [] name = "BadInit" ->
            [fetch |-> "ok", ctor |-> "ok", init |-> "rejects", update |-> "none", onDetach |-> "absent"]
      [] name = "BadCtor" ->
            [fetch |-> "ok", ctor |-> "throws", init |-> "absent", update |-> "none", onDetach |-> "absent"]
      [] name = "BadDetach" ->
            [fetch |-> "ok", ctor |-> "ok", init |-> "absent", update |-> "none", onDetach |-> "rejects"]
      [] name = "NoDefault" ->
            [fetch |-> "nodefault", ctor |-> "ok", init |-> "absent", update |-> "absent", onDetach |-> "absent"]
      [] OTHER ->
            [fetch |-> "fails", ctor |-> "ok", init |-> "absent", update |-> "absent", onDetach |-> "absent"]

\* what a behaviour's update(deltaTime) does to its entity
ScriptUpdateEffect(ent, effect, dt) ==
    CASE effect = "steer" -> [ent EXCEPT !.velocityX = SteerVelocity]
      [] effect = "move" -> [ent EXCEPT !.x = @ + MoverSpeed * dt]
      [] OTHER -> ent

\* Scene.addEntity (part_006 213-215): Set.add, a no-op for a member
AddEntity(scene, e) ==
    IF \E i \in DOMAIN scene : scene[i] = e THEN scene ELSE Append(scene, e)

\* Scene.removeEntity (part_006 221-223): Set.delete
RemoveEntity(e) ==
    /\ sceneEntities' = SelectSeq(sceneEntities, LAMBDA x : x # e)
    /\ UNCHANGED <<isActive, isPaused, ents, frame, tickCount>>

\* the entity a Spawner on e hands to addEntity: the other entity object
SpawnedBy(e) == IF e = "e1" THEN "p1" ELSE "e1"

\* for (const script of this.scripts.values()) script.update(deltaTime)
\* (entities.js 114-118 and 382-386), from slot i on
RECURSIVE RunScripts(_, _, _, _)
RunScripts(st, e, i, dt) ==
    IF i > Len(entScripts[e]) THEN st
    ELSE LET slot == entScripts[e][i]
             effect == ScriptModule(slot.name).update
         IN IF effect = "absent"
            THEN RunScripts(st, e, i + 1, dt)
            ELSE RunScripts(
                    [st EXCEPT
                        !.ents = [st.ents EXCEPT ![e] = ScriptUpdateEffect(@, effect, dt)],
                        !.log = Append(st.log, [ev |-> "scriptUpdate", ent |-> e,
                                                name |-> slot.name, inst |-> slot.inst]),
                        !.scene = IF effect = "spawn" THEN AddEntity(@, SpawnedBy(e)) ELSE @],
                    e, i + 1, dt)

\* position += velocity * deltaTime (entities.js 121-122)
Integrate(st, e, dt) ==
    LET ent == st.ents[e]
        moved == [ent EXCEPT !.x = @ + ent.velocityX * dt, !.y = @ + ent.velocityY * dt]
    IN [st EXCEPT
           !.ents = [st.ents EXCEPT ![e] = moved],
           !.log = Append(st.log, [ev |-> "integrate", ent |-> e, axis |-> "xy",
                                   vx |-> ent.velocityX, vy |-> ent.velocityY])]

\* Entity.update (entities.js 110-128); no animation is ever set
EntityUpdate(st, e, dt) ==
    IF ~st.ents[e].active THEN st
    ELSE Integrate(RunScripts(st, e, 1, dt), e, dt)

\* velocity * (1 / Math.sqrt(2)) in fixed point, rounded towards zero
Normalize(v) == IF v >= 0 THEN (v * 7071) \div 10000 ELSE 0 - (((0 - v) * 7071) \div 10000)

\* Player.update (entities.js 344-387)
PlayerUpdate_YBeforeX(st, e, dt) ==
    LET p == st.ents[e]
        previousX == p.x
        previousY == p.y
        vy0 == IF p.input.down THEN p.speed ELSE IF p.input.up THEN 0 - p.speed ELSE 0
        vx0 == IF p.input.right THEN p.speed ELSE IF p.input.left THEN 0 - p.speed ELSE 0
        diagonal == vx0 # 0 /\ vy0 # 0
        vx1 == IF diagonal THEN Normalize(vx0) ELSE vx0
        vy1 == IF diagonal THEN Normalize(vy0) ELSE vy0
        py1 == [p EXCEPT !.velocityX = vx1, !.velocityY = vy1, !.y = @ + vy1 * dt]
        hitY == EntityCollides(py1)
        py2 == IF hitY THEN [py1 EXCEPT !.y = previousY, !.velocityY = 0] ELSE py1
        px1 == [py2 EXCEPT !.x = @ + vx1 * dt]
        hitX == EntityCollides(px1)
        px2 == IF hitX THEN [px1 EXCEPT !.x = previousX, !.velocityX = 0] ELSE px1
        moved == [st EXCEPT
                     !.ents = [st.ents EXCEPT ![e] = px2],
                     !.log = st.log \o
                      << [ev |-> "integrate", ent |-> e, axis |-> "x", vx |-> vx1, vy |-> vy1,
                          blocked |-> hitX],
                         [ev |-> "integrate", ent |-> e, axis |-> "y", vx |-> px2.velocityX,
                          vy |-> vy1, blocked |-> hitY] >>]
    IN RunScripts(moved, e, 1, dt)

PlayerUpdate(st, e, dt) ==
    LET p == st.ents[e]
        previousX == p.x
        previousY == p.y
        vy0 == IF p.input.down THEN p.speed ELSE IF p.input.up THEN 0 - p.speed ELSE 0
        vx0 == IF p.input.right THEN p.speed ELSE IF p.input.left THEN 0 - p.speed ELSE 0
        diagonal == vx0 # 0 /\ vy0 # 0
        vx1 == IF diagonal THEN Normalize(vx0) ELSE vx0
        vy1 == IF diagonal THEN Normalize(vy0) ELSE vy0
        \* try X movement
        px1 == [p EXCEPT !.velocityX = vx1, !.velocityY = vy1, !.x = @ + vx1 * dt]
        hitX == EntityCollides(px1)
        px2 == IF hitX THEN [px1 EXCEPT !.x = previousX, !.velocityX = 0] ELSE px1
        \* try Y movement
        py1 == [px2 EXCEPT !.y = @ + vy1 * dt]
        hitY == EntityCollides(py1)
        py2 == IF hitY THEN [py1 EXCEPT !.y = previousY, !.velocityY = 0] ELSE py1
        moved == [st EXCEPT
                     !.ents = [st.ents EXCEPT ![e] = py2],
                     !.log = st.log \o
                      << [ev |-> "integrate", ent |-> e, axis |-> "x", vx |-> vx1, vy |-> vy1,
                          blocked |-> hitX],
                         [ev |-> "integrate", ent |-> e, axis |-> "y", vx |-> px2.velocityX,
                          vy |-> vy1, blocked |-> hitY] >>]
    IN RunScripts(moved, e, 1, dt)

\* entity.update(deltaTime): Player overrides Entity.update
UpdateOf(st, e, dt) ==
    IF st.ents[e].cls = "Player" THEN PlayerUpdate(st, e, dt) ELSE EntityUpdate(st, e, dt)

\* what an entity's onCollision hook does: "bounce" turns the velocity around
OnCollisionEffect(ent) ==
    IF ent.onCollision = "bounce"
    THEN [ent EXCEPT !.velocityX = 0 - @, !.velocityY = 0 - @]
    ELSE ent

\* the collision response of Scene.update (part_006 285-292)
CollisionResponse_KeepPosition(st, e, oldX, oldY) ==
    IF st.ents[e].onCollision # "none"
    THEN [st EXCEPT !.ents = [st.ents EXCEPT ![e] = OnCollisionEffect(@)],
                    !.log = Append(st.log, [ev |-> "onCollision", ent |-> e])]
    ELSE st

CollisionResponse(st, e, oldX, oldY) ==
    LET back == [st.ents[e] EXCEPT !.x = oldX, !.y = oldY]
        reverted == [st EXCEPT
                        !.ents = [st.ents EXCEPT ![e] = back],
                        !.log = Append(st.log, [ev |-> "revert", ent |-> e, x |-> back.x,
                                                y |-> back.y, vx |-> back.velocityX,
                                                vy |-> back.velocityY])]
    IN IF back.onCollision # "none"
       THEN [reverted EXCEPT
                !.ents = [reverted.ents EXCEPT ![e] = OnCollisionEffect(@)],
                !.log = Append(reverted.log, [ev |-> "onCollision", ent |-> e])]
       ELSE reverted

\* the body of the loop of Scene.update for one entity (part_006 265-297)
UpdateEntityInScene_IgnoresSolid(st, e, dt) ==
    LET ent == st.ents[e]
    IN IF ent.active
       THEN LET oldX == ent.x
                oldY == ent.y
                upd == UpdateOf(st, e, dt)
                after == upd.ents[e]
                hit == EntityCollides(after)
                checked == [upd EXCEPT
                               !.log = Append(upd.log,
                                      [ev |-> "check", ent |-> e, oldX |-> oldX, oldY |-> oldY,
                                       x |-> after.x, y |-> after.y, vx |-> after.velocityX,
                                       vy |-> after.velocityY, hit |-> hit])]
            IN IF hit THEN CollisionResponse(checked, e, oldX, oldY) ELSE checked
       ELSE st

UpdateEntityInScene(st, e, dt) ==
    LET ent == st.ents[e]
    IN IF ent.active /\ ent.solid
       THEN LET oldX == ent.x
                oldY == ent.y
                upd == UpdateOf(st, e, dt)
                after == upd.ents[e]
                hit == EntityCollides(after)
                checked == [upd EXCEPT
                               !.log = Append(upd.log,
                                      [ev |-> "check", ent |-> e, oldX |-> oldX, oldY |-> oldY,
                                       x |-> after.x, y |-> after.y, vx |-> after.velocityX,
                                       vy |-> after.velocityY, hit |-> hit])]
            IN IF hit THEN CollisionResponse(checked, e, oldX, oldY) ELSE checked
       ELSE IF ent.active THEN UpdateOf(st, e, dt)
       ELSE st

\* for (const entity of this.entities) (part_006 264), from position i on: the
\* iterator of a Set also visits the entries added while it runs
RECURSIVE UpdateEntitiesFrom(_, _, _)
UpdateEntitiesFrom(st, i, dt) ==
    IF i > Len(st.scene) THEN st
    ELSE UpdateEntitiesFrom(UpdateEntityInScene(st, st.scene[i], dt), i + 1, dt)

\* Scene.update (part_006 255-299)
SceneUpdate_IgnoresPause(dt) ==
    /\ IF ~isActive
       THEN /\ frame' = << >>
            /\ UNCHANGED <<ents, sceneEntities>>
       ELSE LET begin == [ev |-> "begin", dt |-> dt, data |-> collisionData,
                          mapWidth |-> mapWidth, mapHeight |-> mapHeight, ents |-> ents,
                          scripts |-> entScripts, procs |-> procs, scene |-> sceneEntities]
                start == [ents |-> ents, log |-> << begin >>, scene |-> sceneEntities]
            IN \E st \in {UpdateEntitiesFrom(start, 1, dt)} :
               /\ ents' = st.ents
               /\ frame' = st.log
               /\ sceneEntities' = st.scene
    /\ tickCount' = tickCount + 1
    /\ UNCHANGED <<isActive, isPaused>>

SceneUpdate(dt) ==
    /\ IF ~isActive \/ isPaused
       THEN /\ frame' = << >>
            /\ UNCHANGED <<ents, sceneEntities>>
       ELSE LET begin == [ev |-> "begin", dt |-> dt, data |-> collisionData,
                          mapWidth |-> mapWidth, mapHeight |-> mapHeight, ents |-> ents,
                          scripts |-> entScripts, procs |-> procs, scene |-> sceneEntities]
                start == [ents |-> ents, log |-> << begin >>, scene |-> sceneEntities]
            IN \E st \in {UpdateEntitiesFrom(start, 1, dt)} :
               /\ ents' = st.ents
               /\ frame' = st.log
               /\ sceneEntities' = st.scene
    /\ tickCount' = tickCount + 1
    /\ UNCHANGED <<isActive, isPaused>>

\* Scene.pause and Scene.resume (part_006 323-332)
Pause ==
    /\ isPaused' = TRUE
    /\ UNCHANGED <<isActive, sceneEntities, ents, frame, tickCount>>

Resume ==
    /\ isPaused' = FALSE
    /\ UNCHANGED <<isActive, sceneEntities, ents, frame, tickCount>>

\* Scene.onExit (part_006 241-249); no entity has onSceneExit
OnExit ==
    /\ isActive' = FALSE
    /\ UNCHANGED <<isPaused, sceneEntities, ents, frame, tickCount>>

\* Scene.onEnter (part_006 228-236), from Engine.loadScene; no entity has onSceneEnter
OnEnter ==
    /\ ~isActive
    /\ isActive' = TRUE
    /\ UNCHANGED <<isPaused, sceneEntities, ents, frame, tickCount>>

\* Player.handleKeyDown / handleKeyUp (entities.js 314-338)
DirectionOf(key) ==
    CASE key \in {"w", "arrowup"} -> "up"
      [] key \in {"s", "arrowdown"} -> "down"
      [] key \in {"a", "arrowleft"} -> "left"
      [] key \in {"d", "arrowright"} -> "right"
      [] OTHER -> "none"

HandleKey(e, key, pressed) ==
    /\ ents[e].cls = "Player"
    /\ DirectionOf(key) # "none"
    /\ ents[e].input[DirectionOf(key)] # pressed
    /\ ents' = [ents EXCEPT ![e].input[DirectionOf(key)] = pressed]
    /\ UNCHANGED <<isActive, isPaused, sceneEntities, frame, tickCount>>

----------------------------------------------------------------------------
\* Script registry and the attach / detach lifecycle

Pending == [kind |-> "pending"]
InstanceRef(id) == [kind |-> "instance", id |-> id]
BoolVal(b) == [kind |-> "boolean", value |-> b]

\* this.scripts.has(name) / get(name) on an entity's Map
SlotIndex(slots, name) ==
    IF \E i \in DOMAIN slots : slots[i].name = name
    THEN CHOOSE i \in DOMAIN slots : slots[i].name = name
    ELSE 0

\* this.scripts.delete(name)
DeleteSlot(slots, name) == SelectSeq(slots, LAMBDA sl : sl.name # name)

\* attachScript from "Don't attach if already attached" on (entities.js 64-84), up
\* to its first await or its return: the entity's Map, the instances, the call's
\* position and result
AttachOutcome_AlwaysConstruct(e, name) ==
    LET id == Len(instInfo) + 1
    IN [scripts |-> Append(DeleteSlot(entScripts[e], name), [name |-> name, inst |-> id]),
        info |-> Append(instInfo, [name |-> name, ent |-> e, initCalls |-> 1,
                                   detachCalls |-> 0]),
        pc |-> "awaitInit", result |-> Pending, inst |-> id]

AttachOutcome_StoredAfterInit(e, name) ==
    LET k == SlotIndex(entScripts[e], name)
        m == ScriptModule(name)
        id == Len(instInfo) + 1
        born(n) == Append(instInfo, [name |-> name, ent |-> e, initCalls |-> n,
                                     detachCalls |-> 0])
        stored == Append(entScripts[e], [name |-> name, inst |-> id])
    IN IF name \notin engineScripts
       THEN [scripts |-> entScripts[e], info |-> instInfo, pc |-> "done",
             result |-> Null, inst |-> 0]
       ELSE IF k # 0
       THEN [scripts |-> entScripts[e], info |-> instInfo, pc |-> "done",
             result |-> InstanceRef(entScripts[e][k].inst), inst |-> entScripts[e][k].inst]
       ELSE IF m.ctor = "throws"
       THEN [scripts |-> entScripts[e], info |-> instInfo, pc |-> "done",
             result |-> Null, inst |-> 0]
       ELSE IF m.init = "absent"
       THEN [scripts |-> stored, info |-> born(0), pc |-> "done",
             result |-> InstanceRef(id), inst |-> id]
       ELSE IF m.init = "throws"
       THEN [scripts |-> stored, info |-> born(1), pc |-> "done",
             result |-> Null, inst |-> id]
       ELSE [scripts |-> entScripts[e], info |-> born(1), pc |-> "awaitInit",
             result |-> Pending, inst |-> id]

AttachOutcome(e, name) ==
    LET k == SlotIndex(entScripts[e], name)
        m == ScriptModule(name)
        id == Len(instInfo) + 1
        born(n) == Append(instInfo, [name |-> name, ent |-> e, initCalls |-> n,
                                     detachCalls |-> 0])
        stored == Append(entScripts[e], [name |-> name, inst |-> id])
    IN IF name \notin engineScripts
       THEN \* new undefined(...) throws; caught
            [scripts |-> entScripts[e], info |-> instInfo, pc |-> "done",
             result |-> Null, inst |-> 0]
       ELSE IF k # 0
       THEN [scripts |-> entScripts[e], info |-> instInfo, pc |-> "done",
             result |-> InstanceRef(entScripts[e][k].inst), inst |-> entScripts[e][k].inst]
       ELSE IF m.ctor = "throws"
       THEN [scripts |-> entScripts[e], info |-> instInfo, pc |-> "done",
             result |-> Null, inst |-> 0]
       ELSE IF m.init = "absent"
       THEN [scripts |-> stored, info |-> born(0), pc |-> "done",
             result |-> InstanceRef(id), inst |-> id]
       ELSE IF m.init = "throws"
       THEN [scripts |-> stored, info |-> born(1), pc |-> "done",
             result |-> Null, inst |-> id]
       ELSE [scripts |-> stored, info |-> born(1), pc |-> "awaitInit",
             result |-> Pending, inst |-> id]

\* a call as made: `loaded` is what its loadScript resolved to, `raised` whether
\* its loadScript rejected, `fetched` whether it reached import(); `registered` is
\* history: isScriptLoaded(name) when the call was made
NewCall(kind, e, name) ==
    [kind |-> kind, ent |-> e, name |-> name, pc |-> "start", result |-> Pending,
     inst |-> 0, loaded |-> FALSE, raised |-> FALSE, fetched |-> FALSE,
     registered |-> name \in engineScripts]

\* Entity.attachScript (entities.js 54-89), from the call to its first await
AttachScript(e, name) ==
    /\ Len(procs) < MaxCalls
    /\ IF name \notin engineScripts
       THEN \* loadScript (engine.js 52-61) runs up to `await import(...)`
            /\ procs' = Append(procs, [NewCall("attach", e, name) EXCEPT
                                          !.pc = "importing", !.fetched = TRUE])
            /\ UNCHANGED <<engineScripts, scriptCache, entScripts, instInfo>>
       ELSE LET o == AttachOutcome(e, name)
            IN /\ procs' = Append(procs, [NewCall("attach", e, name) EXCEPT
                                             !.pc = o.pc, !.result = o.result, !.inst = o.inst])
               /\ entScripts' = [entScripts EXCEPT ![e] = o.scripts]
               /\ instInfo' = o.info
               /\ UNCHANGED <<engineScripts, scriptCache>>

\* Engine.loadScript called on its own (engine.js 52-61), up to its return or
\* to `await import(...)`
LoadScript(name) ==
    /\ Len(procs) < MaxCalls
    /\ procs' = Append(procs,
                  IF name \in engineScripts
                  THEN [NewCall("load", "engine", name) EXCEPT
                           !.pc = "done", !.loaded = TRUE, !.result = BoolVal(TRUE)]
                  ELSE [NewCall("load", "engine", name) EXCEPT
                           !.pc = "importing", !.fetched = TRUE])
    /\ UNCHANGED <<engineScripts, scriptCache, entScripts, instInfo>>

\* what loadScript does once the import has settled (engine.js 61-76): cache the
\* module, register its default export, and settle; a rejected import is caught
ImportOutcome_NoCatch(fetch) ==
    CASE fetch = "ok" ->
            [cached |-> TRUE, registered |-> TRUE, settles |-> "resolved", value |-> TRUE]
      [] fetch = "nodefault" ->
            [cached |-> TRUE, registered |-> FALSE, settles |-> "resolved", value |-> FALSE]
      [] OTHER ->
            [cached |-> FALSE, registered |-> FALSE, settles |-> "rejected", value |-> FALSE]

ImportOutcome(fetch) ==
    CASE fetch = "ok" ->
            [cached |-> TRUE, registered |-> TRUE, settles |-> "resolved", value |-> TRUE]
      [] fetch = "nodefault" ->
            [cached |-> TRUE, registered |-> FALSE, settles |-> "resolved", value |-> FALSE]
      [] OTHER ->
            [cached |-> FALSE, registered |-> FALSE, settles |-> "resolved", value |-> FALSE]

\* Engine.loadScript after the import settles (engine.js 61-76); a call made by
\* attachScript returns into it, a call made on its own is done
ImportSettles(i) ==
    /\ i \in DOMAIN procs
    /\ procs[i].pc = "importing"
    /\ LET o == ImportOutcome(ScriptModule(procs[i].name).fetch)
       IN /\ scriptCache' = IF o.cached THEN scriptCache \cup {procs[i].name}
                            ELSE scriptCache
          /\ engineScripts' = IF o.registered THEN engineScripts \cup {procs[i].name}
                              ELSE engineScripts
          /\ procs' = [procs EXCEPT
                          ![i].pc = IF procs[i].kind = "load" THEN "done" ELSE "loadReturned",
                          ![i].loaded = o.value,
                          ![i].raised = (o.settles = "rejected"),
                          ![i].result = IF procs[i].kind = "load" /\ o.settles = "resolved"
                                        THEN BoolVal(o.value) ELSE @]
    /\ UNCHANGED <<entScripts, instInfo>>

\* attachScript resumes after `await window.engine.loadScript(...)` (entities.js 58-84)
AttachResumes_StoresOnFailure(i) ==
    /\ i \in DOMAIN procs
    /\ procs[i].pc = "loadReturned"
    /\ IF ~procs[i].loaded
       THEN /\ procs' = [procs EXCEPT ![i].pc = "done", ![i].result = Null]
            /\ entScripts' = [entScripts EXCEPT ![procs[i].ent] =
                                 Append(@, [name |-> procs[i].name, inst |-> 0])]
            /\ UNCHANGED instInfo
       ELSE LET o == AttachOutcome(procs[i].ent, procs[i].name)
            IN /\ procs' = [procs EXCEPT ![i].pc = o.pc, ![i].result = o.result,
                                         ![i].inst = o.inst]
               /\ entScripts' = [entScripts EXCEPT ![procs[i].ent] = o.scripts]
               /\ instInfo' = o.info
    /\ UNCHANGED <<engineScripts, scriptCache>>

AttachResumes(i) ==
    /\ i \in DOMAIN procs
    /\ procs[i].pc = "loadReturned"
    /\ IF ~procs[i].loaded
       THEN /\ procs' = [procs EXCEPT ![i].pc = "done", ![i].result = Null]
            /\ UNCHANGED <<entScripts, instInfo>>
       ELSE LET o == AttachOutcome(procs[i].ent, procs[i].name)
            IN /\ procs' = [procs EXCEPT ![i].pc = o.pc, ![i].result = o.result,
                                         ![i].inst = o.inst]
               /\ entScripts' = [entScripts EXCEPT ![procs[i].ent] = o.scripts]
               /\ instInfo' = o.info
    /\ UNCHANGED <<engineScripts, scriptCache>>

\* attachScript resumes after `await scriptInstance.init()` (entities.js 77-88)
InitSettles(i) ==
    /\ i \in DOMAIN procs
    /\ procs[i].kind = "attach"
    /\ procs[i].pc = "awaitInit"
    /\ procs' = [procs EXCEPT ![i].pc = "done",
                              ![i].result = IF ScriptModule(procs[i].name).init = "rejects"
                                            THEN Null ELSE InstanceRef(procs[i].inst)]
    /\ UNCHANGED <<engineScripts, scriptCache, entScripts, instInfo>>

\* Entity.detachScript (entities.js 95-104), from the call to its await or its end
DetachScript_NoSlotCheck(e, name) ==
    /\ Len(procs) < MaxCalls
    /\ LET k == SlotIndex(entScripts[e], name)
           id == IF k = 0 THEN 0 ELSE entScripts[e][k].inst
       IN IF ScriptModule(name).onDetach = "absent"
          THEN /\ procs' = Append(procs, [NewCall("detach", e, name) EXCEPT
                                             !.pc = "done", !.inst = id])
               /\ entScripts' = [entScripts EXCEPT ![e] = DeleteSlot(@, name)]
               /\ UNCHANGED instInfo
          ELSE /\ procs' = Append(procs, [NewCall("detach", e, name) EXCEPT
                                             !.pc = "awaitDetach", !.inst = id])
               /\ instInfo' = [j \in DOMAIN instInfo |->
                                 IF j = id THEN [instInfo[j] EXCEPT !.detachCalls = @ + 1]
                                 ELSE instInfo[j]]
               /\ UNCHANGED entScripts
    /\ UNCHANGED <<engineScripts, scriptCache>>

DetachScript(e, name) ==
    /\ Len(procs) < MaxCalls
    /\ LET k == SlotIndex(entScripts[e], name)
       IN IF k = 0
          THEN /\ procs' = Append(procs, [NewCall("detach", e, name) EXCEPT !.pc = "done"])
               /\ UNCHANGED <<entScripts, instInfo>>
          ELSE LET id == entScripts[e][k].inst
               IN IF ScriptModule(name).onDetach = "absent"
                  THEN /\ procs' = Append(procs, [NewCall("detach", e, name) EXCEPT
                                                     !.pc = "done", !.inst = id])
                       /\ entScripts' = [entScripts EXCEPT ![e] = DeleteSlot(@, name)]
                       /\ UNCHANGED instInfo
                  ELSE /\ procs' = Append(procs, [NewCall("detach", e, name) EXCEPT
                                                     !.pc = "awaitDetach", !.inst = id])
                       /\ instInfo' = [instInfo EXCEPT ![id].detachCalls = @ + 1]
                       /\ UNCHANGED entScripts
    /\ UNCHANGED <<engineScripts, scriptCache>>

\* detachScript resumes after `await script.onDetach()` (entities.js 100-102)
\* when onDetach rejects, the await throws out of detachScript, which has no
\* try/catch: the call ends rejected before this.scripts.delete
DetachResumes(i) ==
    /\ i \in DOMAIN procs
    /\ procs[i].pc = "awaitDetach"
    /\ IF ScriptModule(procs[i].name).onDetach = "rejects"
       THEN /\ procs' = [procs EXCEPT ![i].pc = "done", ![i].raised = TRUE]
            /\ UNCHANGED entScripts
       ELSE /\ entScripts' = [entScripts EXCEPT ![procs[i].ent] = DeleteSlot(@, procs[i].name)]
            /\ procs' = [procs EXCEPT ![i].pc = "done"]
    /\ UNCHANGED <<engineScripts, scriptCache, instInfo>>

\* entity.detachScript(name) as Engine.unloadScript calls it (entities.js 95-104),
\* from the call to its await or its end, on the Maps, instances and calls so far;
\* `registry` is Engine.scripts at that moment
DetachCall(st, e, name) ==
    LET k == SlotIndex(st.scripts[e], name)
        call == [NewCall("detach", e, name) EXCEPT !.registered = name \in st.registry]
    IN IF k = 0
       THEN [st EXCEPT !.procs = Append(@, [call EXCEPT !.pc = "done"])]
       ELSE LET id == st.scripts[e][k].inst
            IN IF ScriptModule(name).onDetach = "absent"
               THEN [st EXCEPT !.scripts[e] = DeleteSlot(@, name),
                               !.procs = Append(@, [call EXCEPT !.pc = "done", !.inst = id])]
               ELSE [st EXCEPT !.info[id].detachCalls = @ + 1,
                               !.procs = Append(@, [call EXCEPT !.pc = "awaitDetach",
                                                                !.inst = id])]

\* for (const entity of this.currentScene.entities) of unloadScript (engine.js 90-94),
\* from position i on
RECURSIVE UnloadDetaches(_, _, _)
UnloadDetaches(st, i, name) ==
    IF i > Len(sceneEntities) THEN st
    ELSE LET e == sceneEntities[i]
         IN UnloadDetaches(IF SlotIndex(st.scripts[e], name) # 0
                           THEN DetachCall(st, e, name) ELSE st,
                           i + 1, name)

\* Engine.unloadScript (engine.js 83-96).  The engine has one scene, which is
\* currentScene from loadScene on, that is, once it has been entered.
UnloadScript(name) ==
    /\ Len(procs) < MaxCalls
    /\ engineScripts' = engineScripts \ {name}
    /\ scriptCache' = scriptCache \ {name}
    /\ LET call == [NewCall("unload", "engine", name) EXCEPT !.pc = "done"]
           st0 == [scripts |-> entScripts, info |-> instInfo,
                   procs |-> Append(procs, call), registry |-> engineScripts \ {name}]
           st == IF isActive THEN UnloadDetaches(st0, 1, name) ELSE st0
       IN /\ entScripts' = st.scripts
          /\ instInfo' = st.info
          /\ procs' = st.procs

----------------------------------------------------------------------------
\* What a behaviour's init() does to its entity.  The entity whose properties
\* `target` holds is the Player "p1".

\* the behaviour instance with number id as an object, and its render method
InstanceObj(id) == "inst" \o ToString(id)
RenderOf(id) == "g" \o ToString(id)

\* this.entity.render = this.render.bind(this)
\* (ExampleScript.js 12, EnemyShooter.js 38)
AssignRender(tgt, id, oid) ==
    [tgt EXCEPT !["render"] = Bind(PlainFn(RenderOf(id)), InstanceObj(id), oid)]

\* the body of init() of instance id of behaviour `name`, up to its return
\* (PlayerController.js 16-25, ExampleScript.js 7-13, EnemyShooter.js 36-42)
InitBody(name, id) ==
    LET ov == [entity |-> TheEntity, instance |-> InstanceObj(id)]
    IN CASE name = "PlayerController" ->
               \* the entity is a Player: new Override(entity, this).after('render', this.render)
               OverrideAfter(ov, "render", RenderOf(id))
         [] name = "ExampleScript" ->
               /\ target' = AssignRender(target, id, nextOid)
               /\ nextOid' = nextOid + 1
               /\ UNCHANGED <<regs, lastOp, lastCall, opCount>>
         [] name = "EnemyShooter" ->
               \* the assignment, then override.replace('render', this.render)
               LET assigned == AssignRender(target, id, nextOid)
               IN /\ opCount < MaxOps
                  /\ target' = [assigned EXCEPT !["render"] =
                                   Replacement(PlainFn(RenderOf(id)), ov, nextOid + 2)]
                  /\ nextOid' = nextOid + 3
                  /\ Registered("replace", ov, "render", RenderOf(id), assigned, TRUE)
         [] OTHER -> UNCHANGED ovVars

\* attachScript on the Player, with the init() it invokes (entities.js 54-89)
AttachWithInit(e, name) ==
    /\ AttachScript(e, name)
    /\ IF /\ Len(instInfo') = Len(instInfo) + 1
          /\ instInfo'[Len(instInfo')].initCalls = 1
       THEN InitBody(name, Len(instInfo'))
       ELSE UNCHANGED ovVars

----------------------------------------------------------------------------
\* The engine's game loop: requestAnimationFrame callbacks and the pause toggles

\* Engine.togglePause (engine.js 280-286), which is also the body of
\* Engine.handleDebugKeys for the pause key (140-146), on isRunning and the number
\* of callbacks requested
TogglePauseOn(st) ==
    IF st.running
    THEN [st EXCEPT !.running = FALSE]
    ELSE [running |-> TRUE, requested |-> st.requested + 1]

\* n keydown listeners for the pause key run one after the other
RECURSIVE KeydownListeners(_, _)
KeydownListeners(st, n) ==
    IF n = 0 THEN st ELSE KeydownListeners(TogglePauseOn(st), n - 1)

\* Engine.initializeSystems (engine.js 110-121): a new bound handleDebugKeys is
\* registered and a frame requested, on every call
InitializeSystems ==
    /\ pendingNow = 0
    /\ keyListeners < MaxListeners
    /\ pendingNext < MaxPending
    /\ keyListeners' = keyListeners + 1
    /\ pendingNext' = pendingNext + 1
    /\ UNCHANGED <<isRunning, debugEnabled, pendingNow, runsThisFrame>>
    /\ UNCHANGED <<windowGlobals, engineEntities, lastEngineOp>>

\* Engine.setDebug (engine.js 128-131)
SetDebug(enabled) ==
    /\ pendingNow = 0
    /\ debugEnabled' = enabled
    /\ UNCHANGED <<isRunning, keyListeners, pendingNext, pendingNow, runsThisFrame>>
    /\ UNCHANGED <<windowGlobals, engineEntities, lastEngineOp>>

\* Engine.start (engine.js 270-275)
Start ==
    /\ pendingNow = 0
    /\ pendingNext < MaxPending
    /\ isRunning' = TRUE
    /\ pendingNext' = pendingNext + 1
    /\ lastEngineOp' = [op |-> "start", before |-> isRunning, ticks |-> tickCount]
    /\ UNCHANGED <<debugEnabled, keyListeners, pendingNow, runsThisFrame>>
    /\ UNCHANGED <<windowGlobals, engineEntities>>

\* Engine.togglePause called by the game (engine.js 280-286)
TogglePause ==
    /\ pendingNow = 0
    /\ LET st == TogglePauseOn([running |-> isRunning, requested |-> pendingNext])
       IN /\ st.requested <= MaxPending
          /\ isRunning' = st.running
          /\ pendingNext' = st.requested
    /\ lastEngineOp' = [op |-> "togglePause", before |-> isRunning, ticks |-> tickCount]
    /\ UNCHANGED <<debugEnabled, keyListeners, pendingNow, runsThisFrame>>
    /\ UNCHANGED <<windowGlobals, engineEntities>>

\* the listeners that toggle the pause on a keydown of the pause key: with debug
\* enabled, the one the Debug constructor registered, which calls
\* window.engine.togglePause if window.engine is set (part_000 49, 72-80), and
\* every one initializeSystems registered, which runs Engine.handleDebugKeys
\* (engine.js 137-147); with debug disabled both handlers return at once
PauseToggles ==
    IF debugEnabled THEN (IF windowGlobals THEN 1 ELSE 0) + keyListeners ELSE 0

\* a keydown of the pause key: the listeners run one after the other
PauseKey ==
    /\ pendingNow = 0
    /\ LET st == KeydownListeners([running |-> isRunning, requested |-> pendingNext],
                                  PauseToggles)
       IN /\ st.requested <= MaxPending
          /\ isRunning' = st.running
          /\ pendingNext' = st.requested
    /\ lastEngineOp' = [op |-> "pauseKey", before |-> isRunning, ticks |-> tickCount,
                        debug |-> debugEnabled, toggles |-> PauseToggles]
    /\ UNCHANGED <<debugEnabled, keyListeners, pendingNow, runsThisFrame>>
    /\ UNCHANGED <<windowGlobals, engineEntities>>

\* the browser starts an animation frame: the callbacks requested so far are the
\* ones it will run; callbacks requested from now on wait for the next frame
BeginFrame ==
    /\ pendingNow = 0
    /\ pendingNext > 0
    /\ pendingNow' = pendingNext
    /\ pendingNext' = 0
    /\ runsThisFrame' = 0
    /\ UNCHANGED <<isRunning, debugEnabled, keyListeners>>
    /\ UNCHANGED <<windowGlobals, engineEntities, lastEngineOp>>

\* whether gameLoop, while running, gets as far as requesting the next frame
\* (engine.js 173-176): `this.debug.render(window.mainCamera.ctx, this)` reads
\* mainCamera.ctx before the call, which throws when no camera has been set
ReachesRequest(camera) == camera

\* Engine.gameLoop (engine.js 153-177) with Engine.update (182-194): one callback
\* runs.  The engine has one scene, which is currentScene once it has been entered.
GameLoop(dt) ==
    /\ pendingNow > 0
    /\ pendingNow' = pendingNow - 1
    /\ IF ~isRunning
       THEN UNCHANGED <<sceneVars, pendingNext, runsThisFrame>>
       ELSE /\ IF isActive
               THEN tickCount < MaxTicks /\ SceneUpdate(dt)
               ELSE UNCHANGED sceneVars
            /\ runsThisFrame' = runsThisFrame + 1
            /\ pendingNext' = IF ReachesRequest(windowGlobals) THEN pendingNext + 1
                              ELSE pendingNext
    /\ UNCHANGED <<isRunning, debugEnabled, keyListeners>>
    /\ UNCHANGED <<windowGlobals, engineEntities, lastEngineOp>>

\* window.mainCamera = mainCamera; window.engine = engine (main.js 2-4, one
\* synchronous script, so no key or frame comes between the two)
SetWindowGlobals ==
    /\ pendingNow = 0
    /\ ~windowGlobals
    /\ windowGlobals' = TRUE
    /\ UNCHANGED <<isRunning, debugEnabled, keyListeners, pendingNext, pendingNow,
                   runsThisFrame, engineEntities, lastEngineOp>>

\* the ids entities are registered under
EntityKeys == {"player", "enemy"}
NoEntry == "undefined"

\* Engine.addEntity (engine.js 201-208).  Scene defines neither onEntityAdded nor
\* onEntityRemoved, so with a current scene the call of the missing method
\* throws a TypeError, after the Map has been written
EngineAddEntity(id, entity) ==
    /\ pendingNow = 0
    /\ LET has == engineEntities[id] # NoEntry
       IN /\ engineEntities' = IF has THEN engineEntities
                                ELSE [engineEntities EXCEPT ![id] = entity]
          /\ lastEngineOp' = [op |-> "addEntity", id |-> id, entity |-> entity,
                              pre |-> engineEntities, threw |-> ~has /\ isActive]
    /\ UNCHANGED <<isRunning, debugEnabled, keyListeners, pendingNext, pendingNow,
                   runsThisFrame, windowGlobals>>

\* Engine.removeEntity (engine.js 214-222): with a current scene the call of the
\* missing onEntityRemoved throws before this.entities.delete
EngineRemoveEntity(id) ==
    /\ pendingNow = 0
    /\ LET has == engineEntities[id] # NoEntry
           throws == has /\ isActive
       IN /\ engineEntities' = IF has /\ ~throws
                                THEN [engineEntities EXCEPT ![id] = NoEntry]
                                ELSE engineEntities
          /\ lastEngineOp' = [op |-> "removeEntity", id |-> id, entity |-> engineEntities[id],
                              pre |-> engineEntities, threw |-> throws]
    /\ UNCHANGED <<isRunning, debugEnabled, keyListeners, pendingNext, pendingNow,
                   runsThisFrame, windowGlobals>>

\* Engine.getEntity (engine.js 263-265): this.entities.get(id) || null
GetEntity(id) == IF engineEntities[id] = NoEntry THEN "null" ELSE engineEntities[id]

\* the engine as constructed: isRunning, debug disabled, no entity registered and
\* the constructor's call of initializeSystems done (engine.js 13, 16, 21, 27);
\* main.js creates the camera after the engine
InitLoop ==
    /\ isRunning = TRUE
    /\ debugEnabled = FALSE
    /\ keyListeners = 1
    /\ pendingNext = 1
    /\ pendingNow = 0
    /\ runsThisFrame = 0
    /\ windowGlobals = FALSE
    /\ engineEntities = [id \in EntityKeys |-> NoEntry]
    /\ lastEngineOp = [op |-> "none"]

----------------------------------------------------------------------------
\* Initial states and specifications

InitScene ==
    /\ isActive = FALSE
    /\ isPaused = FALSE
    /\ sceneEntities = << >>
    /\ ents = [e \in EntityIds |-> IF e = "p1" THEN NewPlayer(0, 0) ELSE NewEntity(0, 0)]
    /\ frame = << >>
    /\ tickCount = 0

InitScripts ==
    /\ engineScripts = {}
    /\ scriptCache = {}
    /\ entScripts = [e \in EntityIds |-> << >>]
    /\ instInfo = << >>
    /\ procs = << >>

\* the engine, one scene and two entities as constructed
Init == InitOverride /\ InitLoop /\ InitGrid /\ InitScene /\ InitScripts

\* ---- Override ----
DoBefore ==
    /\ \E ov \in Overrides, n \in NameInputs :
          \E g \in HooksOf(ov.instance) : OverrideBefore(ov, n, g)
    /\ UNCHANGED <<loopVars, gridVars, lastQuery, sceneVars, scriptVars>>
DoAfter ==
    /\ \E ov \in Overrides, n \in NameInputs :
          \E g \in HooksOf(ov.instance) : OverrideAfter(ov, n, g)
    /\ UNCHANGED <<loopVars, gridVars, lastQuery, sceneVars, scriptVars>>
DoReplace ==
    /\ \E ov \in Overrides, n \in NameInputs :
          \E g \in HooksOf(ov.instance) : OverrideReplace(ov, n, g)
    /\ UNCHANGED <<loopVars, gridVars, lastQuery, sceneVars, scriptVars>>
DoCall ==
    /\ \E n \in MethodNames, a \in ArgLists : CallMethod(n, a)
    /\ UNCHANGED <<loopVars, gridVars, lastQuery, sceneVars, scriptVars>>

NextOverride == DoBefore \/ DoAfter \/ DoReplace \/ DoCall

SpecOverride == Init /\ [][NextOverride]_vars

\* ---- Collision grid ----
DoLoadMap ==
    /\ LoadMap
    /\ UNCHANGED <<loopVars, ovVars, sceneVars, scriptVars>>
DoMapImgOnload ==
    /\ \E i \in 1..MaxLoads, img \in MapImages : MapImgOnload(i, img)
    /\ UNCHANGED <<loopVars, ovVars, sceneVars, scriptVars>>
DoCollisionImgOnload ==
    /\ \E i \in 1..MaxLoads, img \in CollisionImages : CollisionImgOnload(i, img)
    /\ UNCHANGED <<loopVars, ovVars, sceneVars, scriptVars>>
DoImgOnerror ==
    /\ \E i \in 1..MaxLoads, which \in {"mapImg", "collisionImg"} : ImgOnerror(i, which)
    /\ UNCHANGED <<loopVars, ovVars, sceneVars, scriptVars>>
DoQueryPoint ==
    /\ \E x \in QueryXs, y \in QueryYs : QueryPoint(x, y)
    /\ UNCHANGED <<loopVars, ovVars, sceneVars, scriptVars>>

NextGrid == DoLoadMap \/ DoMapImgOnload \/ DoCollisionImgOnload \/ DoImgOnerror \/ DoQueryPoint

SpecGrid == Init /\ [][NextGrid]_vars

\* ---- Script lifecycle on one entity ----
ScriptNames == {"ExampleScript", "Steer", "BadInit", "Missing", "NoDefault"}

DoAttachScript ==
    /\ \E n \in ScriptNames : AttachScript("e1", n)
    /\ UNCHANGED <<loopVars, ovVars, gridVars, lastQuery, sceneVars>>
DoImportSettles ==
    /\ \E i \in 1..MaxCalls : ImportSettles(i)
    /\ UNCHANGED <<loopVars, ovVars, gridVars, lastQuery, sceneVars>>
DoAttachResumes ==
    /\ \E i \in 1..MaxCalls : AttachResumes(i)
    /\ UNCHANGED <<loopVars, ovVars, gridVars, lastQuery, sceneVars>>
DoInitSettles ==
    /\ \E i \in 1..MaxCalls : InitSettles(i)
    /\ UNCHANGED <<loopVars, ovVars, gridVars, lastQuery, sceneVars>>
DoDetachScript ==
    /\ \E n \in ScriptNames : DetachScript("e1", n)
    /\ UNCHANGED <<loopVars, ovVars, gridVars, lastQuery, sceneVars>>
DoDetachResumes ==
    /\ \E i \in 1..MaxCalls : DetachResumes(i)
    /\ UNCHANGED <<loopVars, ovVars, gridVars, lastQuery, sceneVars>>

NextScript ==
    \/ DoAttachScript \/ DoImportSettles \/ DoAttachResumes \/ DoInitSettles
    \/ DoDetachScript \/ DoDetachResumes

SpecScript == Init /\ [][NextScript]_vars

\* ---- A running scene: game setup as in main.js, then frames ----

\* where game setup places the entities: the middle of pixel (1, 1)
Spawn == SubPixels + SubPixels \div 2

\* how game setup configures the plain entity
EntitySetups ==
    { [ent |-> [NewEntity(Spawn, Spawn) EXCEPT !.solid = TRUE, !.cbWidth = SubPixels,
                    !.cbHeight = SubPixels, !.velocityX = 1, !.onCollision = "bounce"],
       scripts |-> << >>],
      [ent |-> [NewEntity(Spawn, Spawn) EXCEPT !.solid = TRUE, !.cbWidth = SubPixels,
                    !.cbHeight = SubPixels, !.velocityY = 1],
       scripts |-> <<"Steer", "Mover">>],
      [ent |-> [NewEntity(Spawn, Spawn) EXCEPT !.velocityX = 1, !.velocityY = -1],
       scripts |-> <<"Mover">>],
      [ent |-> [NewEntity(Spawn, Spawn) EXCEPT !.solid = TRUE, !.velocityX = -1,
                    !.onCollision = "bounce"],
       scripts |-> << >>] }

\* the scene once initializeGame of main.js has added both entities, entered the
\* scene and called loadMap, with the behaviours of start() attached
InitGame ==
    /\ InitOverride /\ InitLoop
    /\ map = NoImage
    /\ mapWidth = 0
    /\ mapHeight = 0
    /\ collisionData = NoData
    /\ gridImage = NoImage
    /\ loads = << NewLoad >>
    /\ loadCount = 1
    /\ lastSettled = "none"
    /\ lastQuery = [op |-> "none"]
    /\ isActive = TRUE
    /\ isPaused = FALSE
    /\ sceneEntities = <<"p1", "e1">>
    /\ frame = << >>
    /\ tickCount = 0
    /\ procs = << >>
    /\ \E setup \in EntitySetups :
          /\ ents = [e \in EntityIds |-> IF e = "p1" THEN NewPlayer(Spawn, Spawn) ELSE setup.ent]
          /\ entScripts = [e \in EntityIds |->
                             IF e = "p1" THEN << [name |-> "PlayerController", inst |-> 1] >>
                             ELSE [i \in 1..Len(setup.scripts) |->
                                      [name |-> setup.scripts[i], inst |-> i + 1]]]
          /\ instInfo = << [name |-> "PlayerController", ent |-> "p1", initCalls |-> 1,
                            detachCalls |-> 0] >>
                        \o [i \in 1..Len(setup.scripts) |->
                              [name |-> setup.scripts[i], ent |-> "e1",
                               initCalls |-> IF ScriptModule(setup.scripts[i]).init = "absent"
                                             THEN 0 ELSE 1,
                               detachCalls |-> 0]]
          /\ engineScripts = {"PlayerController"} \cup {setup.scripts[i] : i \in 1..Len(setup.scripts)}
          /\ scriptCache = engineScripts

DeltaTimes == {1, 2}
SceneMapImages == {[w |-> 3, h |-> 2]}
SceneCollisionImages == {MixedImage}
Keys == {"d", "s", "arrowup"}

DoSceneUpdate ==
    /\ tickCount < MaxTicks
    /\ \E dt \in DeltaTimes : SceneUpdate(dt)
    /\ UNCHANGED <<loopVars, ovVars, gridVars, lastQuery, scriptVars>>
DoHandleKey ==
    /\ \E key \in Keys, pressed \in BOOLEAN : HandleKey("p1", key, pressed)
    /\ UNCHANGED <<loopVars, ovVars, gridVars, lastQuery, scriptVars>>
DoSceneMapImgOnload ==
    /\ \E i \in 1..MaxLoads, img \in SceneMapImages : MapImgOnload(i, img)
    /\ UNCHANGED <<loopVars, ovVars, sceneVars, scriptVars>>
DoSceneCollisionImgOnload ==
    /\ \E i \in 1..MaxLoads, img \in SceneCollisionImages : CollisionImgOnload(i, img)
    /\ UNCHANGED <<loopVars, ovVars, sceneVars, scriptVars>>

NextScene ==
    \/ DoSceneUpdate \/ DoHandleKey
    \/ DoSceneMapImgOnload \/ DoSceneCollisionImgOnload \/ DoImgOnerror

SpecScene == InitGame /\ [][NextScene]_vars

\* ---- The wall scenario: a 10 x 10 map whose column x = 5 is solid ----
WallImage == [w |-> 10, h |-> 10,
              px |-> [i \in 1..100 |-> IF (i - 1) % 10 = 5 THEN Red ELSE Black]]

\* collider sizes (0 is the point collider of a fresh Entity) and start rows
WallColliders == {0, SubPixels, 2 * SubPixels}
WallRows == {0, 4 * SubPixels}

\* the map loaded, the scene entered, one solid entity at x = 0 moving right
InitWall ==
    /\ InitOverride /\ InitLoop /\ InitScripts
    /\ map = [w |-> 10, h |-> 10]
    /\ mapWidth = 10
    /\ mapHeight = 10
    /\ collisionData = GenerateCollisionData(WallImage)
    /\ gridImage = WallImage
    /\ loads = << >>
    /\ loadCount = 1
    /\ lastSettled = "resolved"
    /\ lastQuery = [op |-> "none"]
    /\ isActive = TRUE
    /\ isPaused = FALSE
    /\ sceneEntities = << "e1" >>
    /\ frame = << >>
    /\ tickCount = 0
    /\ \E cw \in WallColliders, ch \in WallColliders, v \in 1..(MaxStep * SubPixels),
          row \in WallRows :
          ents = [e \in EntityIds |->
                    IF e = "p1" THEN NewPlayer(0, 0)
                    ELSE [NewEntity(0, row) EXCEPT !.solid = TRUE, !.cbWidth = cw,
                                                   !.cbHeight = ch, !.velocityX = v]]

DoWallUpdate ==
    /\ tickCount < MaxWallTicks
    /\ ents["e1"].x < WallFar * SubPixels
    /\ SceneUpdate(1)
    /\ UNCHANGED <<loopVars, ovVars, gridVars, lastQuery, scriptVars>>

NextWall == DoWallUpdate

SpecWall == InitWall /\ [][NextWall]_vars

\* ---- Behaviours attached and detached while the game loop runs ----

\* ExampleScript has an async init, an update and an async onDetach; Steer has
\* only an update
LiveScripts == {"ExampleScript", "Steer"}

\* the scene entered with one plain entity in it, no map and no behaviour yet
InitLive ==
    /\ InitOverride /\ InitLoop /\ InitGrid /\ InitScripts
    /\ isActive = TRUE
    /\ isPaused = FALSE
    /\ sceneEntities = << "e1" >>
    /\ ents = [e \in EntityIds |-> IF e = "p1" THEN NewPlayer(0, 0) ELSE NewEntity(0, 0)]
    /\ frame = << >>
    /\ tickCount = 0

DoLiveAttachScript ==
    /\ \E n \in LiveScripts : AttachScript("e1", n)
    /\ UNCHANGED <<loopVars, ovVars, gridVars, lastQuery, sceneVars>>
DoLiveDetachScript ==
    /\ \E n \in LiveScripts : DetachScript("e1", n)
    /\ UNCHANGED <<loopVars, ovVars, gridVars, lastQuery, sceneVars>>

DoLiveUpdate ==
    /\ tickCount < MaxTicks
    /\ SceneUpdate(1)
    /\ UNCHANGED <<loopVars, ovVars, gridVars, lastQuery, scriptVars>>

NextLive ==
    \/ DoLiveAttachScript \/ DoImportSettles \/ DoAttachResumes \/ DoInitSettles
    \/ DoLiveDetachScript \/ DoDetachResumes \/ DoLiveUpdate

SpecLive == InitLive /\ [][NextLive]_vars

\* ---- Frames and queries while the map is still loading, or fails to load ----

\* the keys held down when the first frame runs
HeldInputs == {[NoInput EXCEPT !.right = TRUE],
               [NoInput EXCEPT !.right = TRUE, !.up = TRUE],
               [NoInput EXCEPT !.down = TRUE]}

\* the rectangles asked while loading: empty and not, inside and across the origin
LoadingOrigins == {0 - SubPixels, SubPixels + 1}
LoadingSizes == {0, 2 * SubPixels}

\* initializeGame of main.js: both entities added, the scene entered, loadMap
\* called and not yet settled; no behaviour attached
InitLoading ==
    /\ InitOverride /\ InitLoop /\ InitScripts
    /\ map = NoImage
    /\ mapWidth = 0
    /\ mapHeight = 0
    /\ collisionData = NoData
    /\ gridImage = NoImage
    /\ loads = << NewLoad >>
    /\ loadCount = 1
    /\ lastSettled = "none"
    /\ lastQuery = [op |-> "none"]
    /\ isActive = TRUE
    /\ isPaused = FALSE
    /\ sceneEntities = <<"p1", "e1">>
    /\ frame = << >>
    /\ tickCount = 0
    /\ \E held \in HeldInputs, setup \in {s \in EntitySetups : s.scripts = << >>} :
          ents = [e \in EntityIds |->
                    IF e = "p1" THEN [NewPlayer(Spawn, Spawn) EXCEPT !.input = held]
                    ELSE setup.ent]

DoLoadingQueryRect ==
    /\ \E x \in LoadingOrigins, y \in LoadingOrigins, w \in LoadingSizes, h \in LoadingSizes :
          QueryRect(x, y, w, h)
    /\ UNCHANGED <<loopVars, ovVars, sceneVars, scriptVars>>

NextLoading ==
    \/ DoSceneUpdate \/ DoSceneMapImgOnload \/ DoSceneCollisionImgOnload \/ DoImgOnerror
    \/ DoQueryPoint \/ DoLoadingQueryRect

SpecLoading == InitLoading /\ [][NextLoading]_vars

\* ---- Rectangle queries against a loaded map ----

\* a 3 x 3 collision image whose only red pixel is the centre one
CentreImage == [w |-> 3, h |-> 3,
                px |-> <<Black, Black, Black, Black, Red, Black, Black, Black, Black>>]
RectImages == {CentreImage, MixedImage, AllBlackImage}

\* origins and sizes asked: whole and fractional, inside the map and across its edge
RectOrigins == {0 - SubPixels, 0, SubPixels + 1, 2 * SubPixels}
RectSizes == {0, 1, SubPixels, 2 * SubPixels + 1, 3 * SubPixels}

\* loadMap has resolved with a visual map and a collision map of the same size
InitRect ==
    /\ InitOverride /\ InitLoop /\ InitScene /\ InitScripts
    /\ \E img \in RectImages :
          /\ map = [w |-> img.w, h |-> img.h]
          /\ mapWidth = img.w
          /\ mapHeight = img.h
          /\ collisionData = GenerateCollisionData(img)
          /\ gridImage = img
    /\ loads = << >>
    /\ loadCount = 1
    /\ lastSettled = "resolved"
    /\ lastQuery = [op |-> "none"]

DoQueryRect ==
    /\ \E x \in RectOrigins, y \in RectOrigins, w \in RectSizes, h \in RectSizes :
          QueryRect(x, y, w, h)
    /\ UNCHANGED <<loopVars, ovVars, sceneVars, scriptVars>>

NextRect == DoQueryRect

SpecRect == InitRect /\ [][NextRect]_vars

\* ---- getCollisionPixelsInArea, on a loaded map and before any map is loaded ----

\* either loadMap has resolved (as in InitRect) or it was never called
InitArea ==
    /\ InitOverride /\ InitLoop /\ InitScene /\ InitScripts
    /\ \/ \E img \in RectImages :
             /\ map = [w |-> img.w, h |-> img.h]
             /\ mapWidth = img.w
             /\ mapHeight = img.h
             /\ collisionData = GenerateCollisionData(img)
             /\ gridImage = img
             /\ loadCount = 1
             /\ lastSettled = "resolved"
       \/ /\ map = NoImage
          /\ mapWidth = 0
          /\ mapHeight = 0
          /\ collisionData = NoData
          /\ gridImage = NoImage
          /\ loadCount = 0
          /\ lastSettled = "none"
    /\ loads = << >>
    /\ lastQuery = [op |-> "none"]

DoQueryArea ==
    /\ \E x \in RectOrigins, y \in RectOrigins, w \in RectSizes, h \in RectSizes :
          QueryArea(x, y, w, h)
    /\ UNCHANGED <<loopVars, ovVars, sceneVars, scriptVars>>

NextArea == DoQueryArea

SpecArea == InitArea /\ [][NextArea]_vars

\* ---- Behaviours that hook their entity's methods, then are detached ----

\* PlayerController hooks render with Override.after, ExampleScript assigns
\* render, EnemyShooter assigns it and then replaces it
HookScripts == {"PlayerController", "ExampleScript", "EnemyShooter"}

\* the three behaviours loaded, the scene entered with the Player in it
InitHooks ==
    /\ InitOverride /\ InitLoop /\ InitGrid
    /\ isActive = TRUE
    /\ isPaused = FALSE
    /\ sceneEntities = << "p1" >>
    /\ ents = [e \in EntityIds |-> IF e = "p1" THEN NewPlayer(0, 0) ELSE NewEntity(0, 0)]
    /\ frame = << >>
    /\ tickCount = 0
    /\ engineScripts = HookScripts
    /\ scriptCache = HookScripts
    /\ entScripts = [e \in EntityIds |-> << >>]
    /\ instInfo = << >>
    /\ procs = << >>

DoHookAttach ==
    /\ \E n \in HookScripts : AttachWithInit("p1", n)
    /\ UNCHANGED <<loopVars, gridVars, lastQuery, sceneVars>>
DoHookDetach ==
    /\ \E n \in HookScripts : DetachScript("p1", n)
    /\ UNCHANGED <<loopVars, ovVars, gridVars, lastQuery, sceneVars>>

NextHooks ==
    \/ DoHookAttach \/ DoInitSettles \/ DoHookDetach \/ DoDetachResumes \/ DoCall

SpecHooks == InitHooks /\ [][NextHooks]_vars

\* ---- Frames on a scene that is paused or left, with inactive and non-solid entities ----

\* the map loaded, both entities in the scene with every combination of active and
\* solid, the Player with keys held, the behaviours of the set-up attached
InitPause ==
    /\ InitOverride /\ InitLoop
    /\ map = [w |-> MixedImage.w, h |-> MixedImage.h]
    /\ mapWidth = MixedImage.w
    /\ mapHeight = MixedImage.h
    /\ collisionData = GenerateCollisionData(MixedImage)
    /\ gridImage = MixedImage
    /\ loads = << >>
    /\ loadCount = 1
    /\ lastSettled = "resolved"
    /\ lastQuery = [op |-> "none"]
    /\ isActive = TRUE
    /\ isPaused = FALSE
    /\ sceneEntities = <<"p1", "e1">>
    /\ frame = << >>
    /\ tickCount = 0
    /\ procs = << >>
    /\ \E setup \in EntitySetups, held \in HeldInputs, flags \in [EntityIds -> [active : BOOLEAN, solid : BOOLEAN]] :
          /\ ents = [e \in EntityIds |->
                       [(IF e = "p1" THEN [NewPlayer(Spawn, Spawn) EXCEPT !.input = held]
                         ELSE setup.ent)
                        EXCEPT !.active = flags[e].active, !.solid = flags[e].solid]]
          /\ entScripts = [e \in EntityIds |->
                             IF e = "p1" THEN << >>
                             ELSE [i \in 1..Len(setup.scripts) |->
                                      [name |-> setup.scripts[i], inst |-> i]]]
          /\ instInfo = [i \in 1..Len(setup.scripts) |->
                            [name |-> setup.scripts[i], ent |-> "e1",
                             initCalls |-> IF ScriptModule(setup.scripts[i]).init = "absent"
                                           THEN 0 ELSE 1,
                             detachCalls |-> 0]]
          /\ engineScripts = {setup.scripts[i] : i \in 1..Len(setup.scripts)}
          /\ scriptCache = engineScripts

DoPause ==
    /\ Pause
    /\ UNCHANGED <<loopVars, ovVars, gridVars, lastQuery, scriptVars>>
DoResume ==
    /\ Resume
    /\ UNCHANGED <<loopVars, ovVars, gridVars, lastQuery, scriptVars>>
DoOnExit ==
    /\ OnExit
    /\ UNCHANGED <<loopVars, ovVars, gridVars, lastQuery, scriptVars>>
DoOnEnter ==
    /\ OnEnter
    /\ UNCHANGED <<loopVars, ovVars, gridVars, lastQuery, scriptVars>>

NextPause == DoSceneUpdate \/ DoPause \/ DoResume \/ DoOnExit \/ DoOnEnter

SpecPause == InitPause /\ [][NextPause]_vars

\* ---- A behaviour that adds an entity to the scene from its update ----

\* the behaviours on the spawning entity, in attachment order
SpawnerSetups == {<<"Spawner">>, <<"Mover", "Spawner">>, <<"Spawner", "Steer">>}

\* the scene entered with the plain entity in it, hosting a Spawner; the Player
\* exists, with keys held, but is not in the scene; no map
InitSpawn ==
    /\ InitOverride /\ InitLoop /\ InitGrid
    /\ isActive = TRUE
    /\ isPaused = FALSE
    /\ sceneEntities = << "e1" >>
    /\ frame = << >>
    /\ tickCount = 0
    /\ procs = << >>
    /\ \E scripts \in SpawnerSetups, held \in HeldInputs :
          /\ ents = [e \in EntityIds |->
                       IF e = "p1" THEN [NewPlayer(Spawn, Spawn) EXCEPT !.input = held]
                       ELSE NewEntity(Spawn, Spawn)]
          /\ entScripts = [e \in EntityIds |->
                             IF e = "p1" THEN << >>
                             ELSE [i \in 1..Len(scripts) |-> [name |-> scripts[i], inst |-> i]]]
          /\ instInfo = [i \in 1..Len(scripts) |->
                            [name |-> scripts[i], ent |-> "e1",
                             initCalls |-> IF ScriptModule(scripts[i]).init = "absent"
                                           THEN 0 ELSE 1,
                             detachCalls |-> 0]]
          /\ engineScripts = {scripts[i] : i \in 1..Len(scripts)}
          /\ scriptCache = engineScripts

DoRemoveEntity ==
    /\ \E e \in EntityIds : RemoveEntity(e)
    /\ UNCHANGED <<loopVars, ovVars, gridVars, lastQuery, scriptVars>>

NextSpawn == DoSceneUpdate \/ DoRemoveEntity

SpecSpawn == InitSpawn /\ [][NextSpawn]_vars

\* ---- The game loop from engine construction on ----

\* new Engine() done; the scene holds one moving entity and is not yet loaded
InitEngine ==
    /\ InitOverride /\ InitLoop /\ InitGrid /\ InitScripts
    /\ isActive = FALSE
    /\ isPaused = FALSE
    /\ sceneEntities = << "e1" >>
    /\ ents = [e \in EntityIds |->
                 IF e = "p1" THEN NewPlayer(0, 0)
                 ELSE [NewEntity(0, 0) EXCEPT !.velocityX = 1]]
    /\ frame = << >>
    /\ tickCount = 0

DoInitializeSystems ==
    /\ InitializeSystems
    /\ UNCHANGED <<ovVars, gridVars, lastQuery, sceneVars, scriptVars>>
DoSetDebug ==
    /\ \E enabled \in BOOLEAN : SetDebug(enabled)
    /\ UNCHANGED <<ovVars, gridVars, lastQuery, sceneVars, scriptVars>>
DoStart ==
    /\ Start
    /\ UNCHANGED <<ovVars, gridVars, lastQuery, sceneVars, scriptVars>>
DoTogglePause ==
    /\ TogglePause
    /\ UNCHANGED <<ovVars, gridVars, lastQuery, sceneVars, scriptVars>>
DoPauseKey ==
    /\ PauseKey
    /\ UNCHANGED <<ovVars, gridVars, lastQuery, sceneVars, scriptVars>>
DoLoadScene ==
    /\ pendingNow = 0
    /\ OnEnter
    /\ UNCHANGED <<ovVars, gridVars, lastQuery, scriptVars, loopVars>>
DoSetWindowGlobals ==
    /\ SetWindowGlobals
    /\ UNCHANGED <<ovVars, gridVars, lastQuery, sceneVars, scriptVars>>
DoBeginFrame ==
    /\ BeginFrame
    /\ UNCHANGED <<ovVars, gridVars, lastQuery, sceneVars, scriptVars>>
DoGameLoop ==
    /\ GameLoop(1)
    /\ UNCHANGED <<ovVars, gridVars, lastQuery, scriptVars>>

NextEngine ==
    \/ DoInitializeSystems \/ DoSetDebug \/ DoStart \/ DoTogglePause \/ DoPauseKey
    \/ DoLoadScene \/ DoSetWindowGlobals \/ DoBeginFrame \/ DoGameLoop

SpecEngine == InitEngine /\ [][NextEngine]_vars

\* the browser keeps dispatching animation frames and runs every callback of a
\* frame
SpecEngineFair == SpecEngine /\ WF_vars(DoBeginFrame) /\ WF_vars(DoGameLoop)

\* ---- The engine's entity registry, with and without a current scene ----

DoEngineAddEntity ==
    /\ \E id \in EntityKeys, e \in EntityIds : EngineAddEntity(id, e)
    /\ UNCHANGED <<ovVars, gridVars, lastQuery, sceneVars, scriptVars>>
DoEngineRemoveEntity ==
    /\ \E id \in EntityKeys : EngineRemoveEntity(id)
    /\ UNCHANGED <<ovVars, gridVars, lastQuery, sceneVars, scriptVars>>

NextEntities == DoEngineAddEntity \/ DoEngineRemoveEntity \/ DoLoadScene

SpecEntities == InitEngine /\ [][NextEntities]_vars

\* C27: from engine construction on, through any sequence of initializeSystems,
\* start, togglePause and pause-key events, at most one gameLoop callback is
\* pending at any time, so that Engine.update runs at most once per animation
\* frame.
C27_AtMostOneCallbackPending ==
    /\ pendingNow + pendingNext <= 1
    /\ runsThisFrame <= 1

\* C39: a press of the pause key with debug mode enabled changes the running
\* state exactly once (one listener toggles it, and the state after the press
\* is the opposite of the state before), however many times initializeSystems
\* has been called and with the Engine's and the Debug system's handlers both
\* registered; with debug mode disabled a press changes nothing.
C39_PauseKeyChangesStateOnce ==
    lastEngineOp.op = "pauseKey" =>
        IF lastEngineOp.debug
        THEN lastEngineOp.toggles = 1 /\ isRunning # lastEngineOp.before
        ELSE lastEngineOp.toggles = 0 /\ isRunning = lastEngineOp.before

\* C40: engine.addEntity and engine.removeEntity complete without error in every
\* engine state, with a current scene loaded too; after addEntity(id, e) on an
\* unregistered id getEntity(id) is e, on a registered id it is the entity that
\* was registered, and after removeEntity(id) getEntity(id) is null.
C40_RegistryOpsCompleteAndAgree ==
    /\ lastEngineOp.op \in {"addEntity", "removeEntity"} => ~lastEngineOp.threw
    /\ lastEngineOp.op = "addEntity" =>
          GetEntity(lastEngineOp.id) =
              (IF lastEngineOp.pre[lastEngineOp.id] = NoEntry THEN lastEngineOp.entity
               ELSE lastEngineOp.pre[lastEngineOp.id])
    /\ lastEngineOp.op = "removeEntity" => GetEntity(lastEngineOp.id) = "null"

\* a step in which one gameLoop callback runs
GameLoopRuns == pendingNow' < pendingNow

\* C38: while the engine is paused no gameLoop invocation updates the scene or
\* requests another frame, and no entity changes; while it is running the loop
\* keeps itself scheduled (a callback is pending between invocations), and once
\* it runs with a current scene, after a resume included, an invocation that
\* updates the scene eventually runs unless the engine is paused again first.
C38_PausedLoopIdleRunningLoopLives ==
    /\ [][~isRunning => /\ ents' = ents
                        /\ tickCount' = tickCount
                        /\ GameLoopRuns => pendingNext' = pendingNext]_vars
    /\ [](isRunning => pendingNow + pendingNext >= 1)
    /\ \A n \in 0..(MaxTicks - 1) :
          (isRunning /\ isActive /\ tickCount = n) ~> (tickCount > n \/ ~isRunning)

\* ---- The script registry: load, unload, attach and detach on a live scene ----

\* ExampleScript has an async init and an async onDetach, Steer neither; Missing
\* has no file, NoDefault no default export
RegistryScripts == {"ExampleScript", "Steer", "Missing", "NoDefault"}

\* the names that can come to be hosted, which are the ones detached and unloaded
HostedScripts == {n \in RegistryScripts : ScriptModule(n).fetch = "ok"}

\* the scene entered with both entities in it, nothing loaded yet
InitRegistry ==
    /\ InitOverride /\ InitLoop /\ InitGrid /\ InitScripts
    /\ isActive = TRUE
    /\ isPaused = FALSE
    /\ sceneEntities = <<"p1", "e1">>
    /\ ents = [e \in EntityIds |-> IF e = "p1" THEN NewPlayer(0, 0) ELSE NewEntity(0, 0)]
    /\ frame = << >>
    /\ tickCount = 0

DoLoadScript ==
    /\ \E n \in RegistryScripts : LoadScript(n)
    /\ UNCHANGED <<loopVars, ovVars, gridVars, lastQuery, sceneVars>>
DoUnloadScript ==
    /\ \E n \in HostedScripts : UnloadScript(n)
    /\ UNCHANGED <<loopVars, ovVars, gridVars, lastQuery, sceneVars>>
DoRegistryAttach ==
    /\ \/ \E n \in RegistryScripts : AttachScript("e1", n)
       \/ \E n \in HostedScripts : AttachScript("p1", n)
    /\ UNCHANGED <<loopVars, ovVars, gridVars, lastQuery, sceneVars>>
DoRegistryDetach ==
    /\ \E n \in HostedScripts : DetachScript("e1", n)
    /\ UNCHANGED <<loopVars, ovVars, gridVars, lastQuery, sceneVars>>
DoRegistryImportSettles ==
    /\ \E i \in DOMAIN procs : ImportSettles(i)
    /\ UNCHANGED <<loopVars, ovVars, gridVars, lastQuery, sceneVars>>
DoRegistryAttachResumes ==
    /\ \E i \in DOMAIN procs : AttachResumes(i)
    /\ UNCHANGED <<loopVars, ovVars, gridVars, lastQuery, sceneVars>>
DoRegistryInitSettles ==
    /\ \E i \in DOMAIN procs : InitSettles(i)
    /\ UNCHANGED <<loopVars, ovVars, gridVars, lastQuery, sceneVars>>
DoRegistryDetachResumes ==
    /\ \E i \in DOMAIN procs : DetachResumes(i)
    /\ UNCHANGED <<loopVars, ovVars, gridVars, lastQuery, sceneVars>>

NextRegistry ==
    \/ DoLoadScript \/ DoUnloadScript \/ DoRegistryAttach \/ DoRegistryDetach
    \/ DoRegistryImportSettles \/ DoRegistryAttachResumes \/ DoRegistryInitSettles
    \/ DoRegistryDetachResumes

SpecRegistry == InitRegistry /\ [][NextRegistry]_vars

\* ---- Attach, detach and unload calls that overlap on a hosted behaviour ----

\* ExampleScript's onDetach is async; BadDetach's onDetach rejects
OverlapScripts == {"ExampleScript", "BadDetach"}

\* the scene entered with the plain entity in it; both classes are registered
\* and the entity hosts an ExampleScript whose attach has completed
InitOverlap ==
    /\ InitOverride /\ InitLoop /\ InitGrid
    /\ isActive = TRUE
    /\ isPaused = FALSE
    /\ sceneEntities = << "e1" >>
    /\ ents = [e \in EntityIds |-> IF e = "p1" THEN NewPlayer(0, 0) ELSE NewEntity(0, 0)]
    /\ frame = << >>
    /\ tickCount = 0
    /\ engineScripts = OverlapScripts
    /\ scriptCache = OverlapScripts
    /\ entScripts = [e \in EntityIds |->
                       IF e = "e1" THEN << [name |-> "ExampleScript", inst |-> 1] >>
                       ELSE << >>]
    /\ instInfo = << [name |-> "ExampleScript", ent |-> "e1", initCalls |-> 1,
                      detachCalls |-> 0] >>
    /\ procs = << >>

DoOverlapAttach ==
    /\ \E n \in OverlapScripts : AttachScript("e1", n)
    /\ UNCHANGED <<loopVars, ovVars, gridVars, lastQuery, sceneVars>>
DoOverlapDetach ==
    /\ \E n \in OverlapScripts : DetachScript("e1", n)
    /\ UNCHANGED <<loopVars, ovVars, gridVars, lastQuery, sceneVars>>
DoOverlapUnload ==
    /\ \E n \in OverlapScripts : UnloadScript(n)
    /\ UNCHANGED <<loopVars, ovVars, gridVars, lastQuery, sceneVars>>

NextOverlap ==
    \/ DoOverlapAttach \/ DoOverlapDetach \/ DoOverlapUnload
    \/ DoRegistryImportSettles \/ DoRegistryAttachResumes \/ DoRegistryInitSettles
    \/ DoRegistryDetachResumes

SpecOverlap == InitOverlap /\ [][NextOverlap]_vars

----------------------------------------------------------------------------
\* Claims about the script registry

\* the calls that asked the module loader for name n
Fetches(n) == {i \in DOMAIN procs : procs[i].name = n /\ procs[i].fetched}

\* C22: over any sequence and interleaving of loadScript, attachScript,
\* detachScript and unloadScript calls the module loader is asked for each script
\* name at most once, and loadScript on a name that is already loaded returns true
\* without asking it.
C22_EachNameFetchedAtMostOnce ==
    /\ \A n \in RegistryScripts : Cardinality(Fetches(n)) <= 1
    /\ \A i \in DOMAIN procs :
          (procs[i].kind = "load" /\ procs[i].registered) =>
              (~procs[i].fetched /\ procs[i].result = BoolVal(TRUE))

\* call i is a loadScript (on its own or inside attachScript) that settles in
\* this step: its import settles, or it returns at once
LoadSettlesNow(i) ==
    \/ i \in DOMAIN procs /\ procs[i].pc = "importing" /\ procs'[i].pc # "importing"
    \/ i \notin DOMAIN procs /\ procs'[i].kind = "load" /\ procs'[i].pc = "done"

\* C23: loadScript never raises.  For a module that cannot be fetched or has no
\* default export it resolves to false, and the name is not loaded before or after;
\* when it resolves to true the name is loaded at that moment, registered with
\* the class its module exports by default.
C23_LoadScriptResolvesToLoadedness ==
    [][ \A i \in DOMAIN procs' :
            LoadSettlesNow(i) =>
                LET c == procs'[i]
                    exportsClass == ScriptModule(c.name).fetch = "ok"
                IN /\ ~c.raised
                   /\ c.loaded = exportsClass
                   /\ c.kind = "load" => c.result = BoolVal(c.loaded)
                   /\ c.loaded => c.name \in engineScripts'
                   /\ ~c.loaded => (c.name \notin engineScripts /\ c.name \notin engineScripts')
                   /\ \A n \in engineScripts' : ScriptModule(n).fetch = "ok" ]_vars

\* loadScript has resolved to false for the missing module, to false for the
\* module without default export and to true for a loaded one
C23_Witness ==
    /\ \E i \in DOMAIN procs :
          procs[i].kind = "load" /\ procs[i].name = "Missing" /\ procs[i].fetched
          /\ procs[i].result = BoolVal(FALSE)
    /\ \E i \in DOMAIN procs :
          procs[i].name = "NoDefault" /\ procs[i].fetched /\ procs[i].pc = "done"
          /\ ~procs[i].loaded
    /\ \E i \in DOMAIN procs :
          procs[i].kind = "load" /\ procs[i].result = BoolVal(TRUE)

\* this step is a call unloadScript(n)
UnloadsNow(n) ==
    /\ Len(procs') > Len(procs)
    /\ procs'[Len(procs) + 1].kind = "unload"
    /\ procs'[Len(procs) + 1].name = n

\* C24: unloadScript(name) detaches the behaviour from every entity of the scene
\* that hosts it (onDetach invoked on each instance, its slot removed) before it
\* removes the name from the registry; when it returns the name is not loaded and
\* no entity of the scene has a slot under the name.
C24_UnloadDetachesThenUnregisters ==
    [][ \A n \in HostedScripts :
            UnloadsNow(n) =>
                /\ n \notin engineScripts'
                /\ \A k \in DOMAIN sceneEntities :
                      LET e == sceneEntities[k]
                          slot == SlotIndex(entScripts[e], n)
                      IN /\ SlotIndex(entScripts'[e], n) = 0
                         /\ (slot # 0 /\ ScriptModule(n).onDetach # "absent") =>
                                instInfo'[entScripts[e][slot].inst].detachCalls =
                                    instInfo[entScripts[e][slot].inst].detachCalls + 1
                /\ \A j \in (Len(procs) + 2)..Len(procs') :
                      n \in engineScripts => procs'[j].registered ]_vars

\* C30: whenever attachScript(name) resolves to an instance, that instance is at
\* that moment the one stored under name in the entity's Map, whatever detachScript
\* and unloadScript calls on the name ran in between.
C30_ResolvedInstanceIsTheStoredOne ==
    [][ \A i \in DOMAIN procs' :
            ( /\ procs'[i].kind = "attach"
              /\ procs'[i].result.kind = "instance"
              /\ (i \in DOMAIN procs => procs[i].result = Pending) ) =>
                LET slots == entScripts'[procs'[i].ent]
                    k == SlotIndex(slots, procs'[i].name)
                IN k # 0 /\ slots[k].inst = procs'[i].result.id ]_vars

----------------------------------------------------------------------------
\* Claims about behaviours that hook their entity

\* detachScript has completed for instance id: a call that found it has returned
Detached(id) ==
    \E i \in DOMAIN procs :
        procs[i].kind = "detach" /\ procs[i].pc = "done" /\ procs[i].inst = id

\* C21: once detachScript has completed for a behaviour instance, no call of a
\* method of the entity (render, update) runs a function of that instance, whether
\* the instance assigned it to the entity or installed it with Override.before,
\* after or replace.
C21_DetachedInstanceIsNeverCalled ==
    [][ (lastCall' # lastCall /\ lastCall'.name # "none") =>
            \A k \in DOMAIN lastCall'.log : \A id \in DOMAIN instInfo :
                Detached(id) => lastCall'.log[k].fn # RenderOf(id) ]_vars

----------------------------------------------------------------------------
\* Reading the log of the last frame: whether one ran, the events of an entity,
\* and the positions after the opening snapshot
Ran == frame # << >>
Events(e, kinds) == {i \in DOMAIN frame : frame[i].ev \in kinds /\ frame[i].ent = e}
Stepped == DOMAIN frame \ {1}

----------------------------------------------------------------------------
\* Claims about paused scenes and about inactive and non-solid entities

\* this step is a call of Scene.update
UpdatesNow == tickCount' = tickCount + 1

\* C25: Scene.update on a scene that is inactive or paused is a no-op: no
\* entity's update or onCollision is invoked and no position, velocity or
\* behaviour state changes; on an active scene that is not paused (again, after
\* resume) it updates every active entity of the scene.
C25_NoOpWhileInactiveOrPaused ==
    [][ UpdatesNow =>
            IF ~isActive \/ isPaused
            THEN /\ frame' = << >>
                 /\ ents' = ents
                 /\ entScripts' = entScripts
                 /\ instInfo' = instInfo
            ELSE /\ frame' # << >>
                 /\ \A k \in DOMAIN sceneEntities :
                       ents[sceneEntities[k]].active =>
                           \E i \in DOMAIN frame' :
                               /\ frame'[i].ev = "integrate"
                               /\ frame'[i].ent = sceneEntities[k] ]_vars

\* Scene.update has run on the paused scene and did nothing, and before that a
\* frame had moved an entity
C25_Witness ==
    /\ isActive /\ isPaused
    /\ tickCount > 1
    /\ frame = << >>
    /\ \E e \in EntityIds : ents[e].x # Spawn

\* C28: an entity added to the scene's entity set while Scene.update iterates it
\* (by a behaviour's update) is not updated in that tick, only from the next one
\* on, and an entity that was in the set when the tick began is updated at most
\* once in it.
C28_AddedEntityWaitsForNextTick ==
    Ran =>
        \A e \in EntityIds :
            LET calls == {i \in Events(e, {"integrate"}) : frame[i].axis \in {"xy", "x"}}
                present == \E k \in DOMAIN frame[1].scene : frame[1].scene[k] = e
            IN /\ ~present => calls = {}
               /\ present => Cardinality(calls) <= 1

\* the calls of entity e's update in the last frame: a Player logs its X step
\* and its Y step, an Entity its one integration
UpdateCalls(e) == {i \in Events(e, {"integrate"}) : frame[i].axis \in {"xy", "x"}}

\* what the behaviours of e added to its x in the last frame
ScriptShift(e) ==
    Cardinality({i \in Events(e, {"scriptUpdate"}) :
                    ScriptModule(frame[i].name).update = "move"}) * MoverSpeed * frame[1].dt

----------------------------------------------------------------------------
\* Claims about the script lifecycle

AttachCalls(e, n) == {i \in DOMAIN procs : procs[i].kind = "attach" /\ procs[i].ent = e
                                            /\ procs[i].name = n}
DetachCalls(e, n) == {i \in DOMAIN procs : procs[i].kind = "detach" /\ procs[i].ent = e
                                            /\ procs[i].name = n}
InstancesOf(e, n) == {k \in DOMAIN instInfo : instInfo[k].ent = e /\ instInfo[k].name = n}

\* C1: for an entity and a script name with no detach, however the attachScript
\* calls interleave, at most one instance is constructed, every finished call
\* returned that instance, and its init was invoked exactly once.
C1_AttachReturnsTheOneInstance ==
    \A n \in ScriptNames :
        DetachCalls("e1", n) = {} =>
            /\ Cardinality(InstancesOf("e1", n)) <= 1
            /\ \A k \in InstancesOf("e1", n) :
                  /\ instInfo[k].initCalls = IF ScriptModule(n).init = "absent" THEN 0 ELSE 1
                  /\ \A i \in AttachCalls("e1", n) :
                        procs[i].pc = "done" => procs[i].result = InstanceRef(k)

\* the attach calls suspended in `await scriptInstance.init()`, in a list of calls
InitSuspended(calls) ==
    {i \in DOMAIN calls : calls[i].kind = "attach" /\ calls[i].pc = "awaitInit"}

\* the instances for which a detachScript call has found the slot, in a list of calls
DetachBegun(calls) ==
    {calls[i].inst : i \in {j \in DOMAIN calls : calls[j].kind = "detach" /\ calls[j].inst # 0}}

\* whether detachScript(name) has been called on the entity, in a list of calls
DetachCalled(calls, e, n) ==
    \E j \in DOMAIN calls : calls[j].kind = "detach" /\ calls[j].ent = e /\ calls[j].name = n

SteppedCalls(kind) ==
    {i \in DOMAIN procs' : /\ procs'[i].kind = kind
                           /\ (i \notin DOMAIN procs \/ procs'[i] # procs[i])}

\* C17: when the script is not loaded and loading it fails, no step of the
\* attachScript call changes the entity's behaviour mapping, any other field of
\* the entity or the set of instances, and the call ends resolved to null.
C17_FailedLoadLeavesEntityAsItWas ==
    [][\A i \in SteppedCalls("attach") :
          ScriptModule(procs'[i].name).fetch # "ok" =>
              /\ entScripts' = entScripts
              /\ ents' = ents
              /\ instInfo' = instInfo
              /\ procs'[i].pc \in {"importing", "loadReturned", "done"}
              /\ procs'[i].pc = "done" => (procs'[i].result = Null /\ procs'[i].inst = 0)
              /\ procs'[i].pc # "done" => procs'[i].result = Pending]_vars

\* an attach of a script that has no file has resolved to null on an entity that
\* holds another behaviour, which is still there
C17_Witness ==
    /\ \E i \in DOMAIN procs :
          /\ procs[i].kind = "attach" /\ procs[i].name = "Missing"
          /\ procs[i].pc = "done" /\ procs[i].result = Null
    /\ \E k \in DOMAIN entScripts["e1"] : entScripts["e1"][k].name = "Steer"
    /\ Len(instInfo) = 1

\* the instances held in an entity's mapping
Stored(e) == {entScripts[e][k].inst : k \in DOMAIN entScripts[e]}

\* the detachScript calls that found a slot
FoundSlot == {i \in DOMAIN procs : procs[i].kind = "detach" /\ procs[i].inst # 0}

\* C18: for a detachScript(name) that finds a slot, the instance's onDetach (if
\* present) is invoked by that call and has resolved before the slot is removed;
\* the slot stays in the mapping for the whole duration of onDetach, and an
\* instance without onDetach is removed directly.
C18_SlotKeptUntilOnDetachResolved ==
    /\ \A i \in FoundSlot :
          IF ScriptModule(procs[i].name).onDetach = "absent"
          THEN /\ procs[i].pc = "done"
               /\ instInfo[procs[i].inst].detachCalls = 0
          ELSE /\ instInfo[procs[i].inst].detachCalls >= 1
               /\ procs[i].pc = "awaitDetach" => procs[i].inst \in Stored(procs[i].ent)
    /\ \A k \in DOMAIN instInfo :
          k \notin Stored(instInfo[k].ent) =>
              \E i \in FoundSlot : procs[i].inst = k /\ procs[i].pc = "done"

\* C19: detachScript(name) on an entity that holds no behaviour under name ends
\* at once without error, invokes no onDetach and changes neither the behaviour
\* mapping nor any other field of the entity.
C19_DetachOfUnattachedIsNoOp ==
    [][\A i \in SteppedCalls("detach") :
          (/\ i \notin DOMAIN procs
           /\ SlotIndex(entScripts[procs'[i].ent], procs'[i].name) = 0) =>
              /\ procs'[i].pc = "done"
              /\ procs'[i].inst = 0
              /\ entScripts' = entScripts
              /\ ents' = ents
              /\ instInfo' = instInfo]_vars

\* a detach of a name that was never attached has ended on an entity that holds
\* another behaviour: that behaviour is still there and no onDetach has run
C19_Witness ==
    /\ \E i \in DOMAIN procs :
          /\ procs[i].kind = "detach" /\ procs[i].name = "ExampleScript"
          /\ procs[i].pc = "done" /\ procs[i].inst = 0
    /\ \E k \in DOMAIN entScripts["e1"] : entScripts["e1"][k].name = "Steer"
    /\ \A k \in DOMAIN instInfo : instInfo[k].detachCalls = 0
    /\ \A k \in DOMAIN instInfo : instInfo[k].name # "ExampleScript"

\* the behaviours whose update the last frame invoked on an entity, in order
UpdatesInvoked(e) ==
    LET evs == SelectSeq(frame, LAMBDA ev : ev.ev = "scriptUpdate" /\ ev.ent = e)
    IN [k \in DOMAIN evs |-> [name |-> evs[k].name, inst |-> evs[k].inst]]

\* C20: each Entity.update invokes update exactly once, in attachment order, on
\* every attached behaviour in the Active state that exposes update, and on no
\* other instance: never on one whose detach has begun (onDetach in progress) or
\* has completed.
C20_UpdatesOnlyActiveBehaviours ==
    Ran =>
        \A n \in DOMAIN sceneEntities :
            LET e == sceneEntities[n]
                leaving == DetachBegun(frame[1].procs)
            IN (frame[1].ents[e].active /\ frame[1].ents[e].cls = "Entity") =>
                  UpdatesInvoked(e) =
                      SelectSeq(frame[1].scripts[e],
                                LAMBDA sl : /\ ScriptModule(sl.name).update # "absent"
                                            /\ sl.inst \notin leaving)

\* the instances whose class has an onDetach method
WithOnDetach == {k \in DOMAIN instInfo : ScriptModule(instInfo[k].name).onDetach # "absent"}

\* C31: under any interleaving of attachScript and detachScript calls on one
\* entity and name, an instance that has an onDetach method leaves the mapping
\* only after its own onDetach has been invoked: a detach that began on an
\* earlier instance never removes a later instance stored under the same name.
C31_RemovedOnlyAfterItsOwnOnDetach ==
    \A k \in WithOnDetach :
        k \notin Stored(instInfo[k].ent) => instInfo[k].detachCalls >= 1

\* C32: onDetach is invoked at most once on every behaviour instance, also when
\* detachScript calls overlap at the await of onDetach or unloadScript runs
\* while a detach of the same name is pending.
C32_OnDetachAtMostOnce ==
    \A k \in DOMAIN instInfo : instInfo[k].detachCalls <= 1

\* C33: once attachScript(name) has resolved to null (the load failed, the
\* constructor threw, or init threw or rejected) the instance the call created,
\* if any, is not stored in the entity's mapping, which is as it was before the
\* call.
C33_NullAttachLeavesNoInstance ==
    \A i \in DOMAIN procs :
        (procs[i].kind = "attach" /\ procs[i].pc = "done" /\ procs[i].result = Null) =>
            (procs[i].inst = 0 \/ procs[i].inst \notin Stored(procs[i].ent))

\* C34: every detachScript(name) that found a slot and has ended, ended normally
\* and with that slot removed, also when onDetach throws or rejects: no ended
\* call has failed, whether made directly or by unloadScript, and the entity
\* does not hold the instance any more.
C34_DetachRunsToCompletion ==
    \A i \in FoundSlot :
        procs[i].pc = "done" =>
            /\ ~procs[i].raised
            /\ procs[i].inst \notin Stored(procs[i].ent)

\* C36: whenever an entity hosts a behaviour instance under a name, that name is
\* registered (isScriptLoaded(name) is true), also while a detach started by
\* unloadScript is suspended in onDetach.
C36_HostedNamesAreRegistered ==
    \A e \in EntityIds :
        \A k \in DOMAIN entScripts[e] : entScripts[e][k].name \in engineScripts

----------------------------------------------------------------------------
\* Claims about the per-frame update


\* C2: in Scene.update every active solid entity is checked once after its
\* update; if its collision rectangle is then occupied, x and y go back to the
\* values captured before the update, the velocity stays as the update left it
\* and onCollision (if defined) is then invoked once; otherwise the position is
\* kept and onCollision is not invoked.
C2_RevertOnCollision ==
    Ran =>
        \A n \in 1..Len(sceneEntities) :
            LET e == sceneEntities[n]
                before == frame[1].ents[e]
                checks == {i \in Stepped : frame[i].ev = "check" /\ frame[i].ent = e}
            IN (before.active /\ before.solid) =>
                 /\ Cardinality(checks) = 1
                 /\ \A i \in checks :
                       LET c == frame[i]
                           occupied == CheckRectCollisionIn(frame[1].data, frame[1].mapWidth,
                                           frame[1].mapHeight, c.x + before.cbOffX,
                                           c.y + before.cbOffY, before.cbWidth, before.cbHeight)
                       IN /\ c.oldX = before.x /\ c.oldY = before.y
                          /\ c.hit = occupied
                          /\ occupied =>
                                /\ i + 1 \in DOMAIN frame
                                /\ frame[i + 1] = [ev |-> "revert", ent |-> e, x |-> before.x,
                                                   y |-> before.y, vx |-> c.vx, vy |-> c.vy]
                                /\ ents[e].x = before.x /\ ents[e].y = before.y
                                /\ IF before.onCollision # "none"
                                   THEN Events(e, {"onCollision"}) = {i + 2}
                                   ELSE Events(e, {"onCollision"}) = {}
                          /\ ~occupied =>
                                /\ Events(e, {"revert", "onCollision"}) = {}
                                /\ ents[e].x = c.x /\ ents[e].y = c.y
                                /\ ents[e].velocityX = c.vx /\ ents[e].velocityY = c.vy

\* a frame in which the plain entity moved into a solid pixel, was put back and
\* had its onCollision hook called
C2_Witness ==
    /\ Ran
    /\ \E i \in Stepped :
          /\ frame[i].ev = "check" /\ frame[i].ent = "e1" /\ frame[i].hit
          /\ frame[i].x # frame[i].oldX
          /\ ents["e1"].x = frame[i].oldX
    /\ Events("e1", {"onCollision"}) # {}

\* C3: in the wall scenario the leading (rightmost) pixel column of the entity's
\* collision rectangle never lies beyond x = 4, whatever the collider size and the
\* displacement per tick.
LeadingEdge(ent) ==
    IF Floor(ent.cbWidth) = 0 THEN Floor(ent.x + ent.cbOffX)
    ELSE Floor(ent.x + ent.cbOffX) + Floor(ent.cbWidth) - 1

C3_NeverPastTheWall == LeadingEdge(ents["e1"]) <= 4

\* C4: in every update of an entity, base Entity and Player alike, the update
\* hooks of its behaviours run in attachment order before the entity's position
\* is changed by its velocity in that frame.
C4_BehavioursBeforeIntegration ==
    Ran =>
        \A e \in EntityIds :
            /\ \A i \in Events(e, {"scriptUpdate"}), j \in Events(e, {"integrate"}) : i < j
            /\ \A i, j \in Events(e, {"scriptUpdate"}) :
                  i < j => SlotIndex(entScripts[e], frame[i].name)
                             < SlotIndex(entScripts[e], frame[j].name)

\* the player's collision rectangle at (x, y), against the grid the frame began with
OccupiedAt(b, x, y) ==
    CheckRectCollisionIn(frame[1].data, frame[1].mapWidth, frame[1].mapHeight,
                         x + b.cbOffX, y + b.cbOffY, b.cbWidth, b.cbHeight)

\* C15: Player.update resolves X before Y.  The X displacement is applied and
\* tested first: on collision x goes back to its pre-update value and velocityX
\* becomes 0.  Then the Y displacement is applied at the resulting x and tested: on
\* collision y goes back and velocityY becomes 0.  So with only the X path blocked
\* the player moves purely in Y with velocityY unchanged, and when each axis alone
\* is free but the diagonal target is blocked the X move is kept and the Y move
\* dropped.
C15_AxisSeparatedXBeforeY ==
    Ran =>
        \A ix \in Stepped :
            (frame[ix].ev = "integrate" /\ frame[ix].axis = "x") =>
                LET e == frame[ix].ent
                    b == frame[1].ents[e]
                    dx == frame[ix].vx * frame[1].dt
                    dy == frame[ix].vy * frame[1].dt
                    hitX == OccupiedAt(b, b.x + dx, b.y)
                    xRes == IF hitX THEN b.x ELSE b.x + dx
                    hitY == OccupiedAt(b, xRes, b.y + dy)
                    yRes == IF hitY THEN b.y ELSE b.y + dy
                    ic == CHOOSE i \in Stepped : frame[i].ev = "check" /\ frame[i].ent = e
                    after == frame[ic]
                IN /\ frame[ix + 1].ev = "integrate" /\ frame[ix + 1].axis = "y"
                   /\ frame[ix + 1].ent = e
                   /\ frame[ix].blocked = hitX
                   /\ frame[ix + 1].blocked = hitY
                   /\ after.x = xRes /\ after.y = yRes
                   /\ after.vx = IF hitX THEN 0 ELSE frame[ix].vx
                   /\ after.vy = IF hitY THEN 0 ELSE frame[ix].vy
                   /\ (hitX /\ ~hitY) =>
                         /\ after.x = b.x /\ after.y = b.y + dy
                         /\ after.vx = 0 /\ after.vy = frame[ix].vy
                   /\ (/\ ~OccupiedAt(b, b.x + dx, b.y)
                       /\ ~OccupiedAt(b, b.x, b.y + dy)
                       /\ OccupiedAt(b, b.x + dx, b.y + dy)) =>
                         /\ after.x = b.x + dx /\ after.y = b.y

\* the entities that were in the scene, active and solid, with a collision
\* rectangle free of the grid when the last frame began
FreeAtStart ==
    {e \in EntityIds :
        /\ \E k \in DOMAIN frame[1].scene : frame[1].scene[k] = e
        /\ frame[1].ents[e].active /\ frame[1].ents[e].solid
        /\ ~OccupiedAt(frame[1].ents[e], frame[1].ents[e].x, frame[1].ents[e].y)}

\* C35: with the grid and the collision bounds unchanged during the tick, and
\* with behaviours and onCollision hooks that move only their own entity before
\* the scene's check, a solid active entity whose collision rectangle is not
\* occupied when a Scene.update begins is not occupied when it ends, for a base
\* Entity (whole-position revert) and for the Player (axis-separated resolution,
\* then the scene's check).
C35_FreeAtStartFreeAtEnd ==
    Ran => \A e \in FreeAtStart : ~OccupiedAt(frame[1].ents[e], ents[e].x, ents[e].y)

\* a frame on a loaded map in which the plain entity, free at the start, was moved
\* into the grid by its update and put back by the scene, and the player, free at
\* the start, was blocked on an axis by its own resolution
C35_Witness ==
    /\ Ran
    /\ frame[1].data # NoData
    /\ FreeAtStart = {"e1", "p1"}
    /\ \E i \in Stepped : /\ frame[i].ev = "check" /\ frame[i].ent = "e1" /\ frame[i].hit
                            /\ frame[i].x # frame[i].oldX
    /\ \E i \in Stepped : /\ frame[i].ev = "integrate" /\ frame[i].ent = "p1"
                            /\ frame[i].blocked

\* a frame in which the player, moving diagonally, was blocked in X only and moved
\* purely in Y
C15_Witness ==
    /\ Ran
    /\ \E ix \in Stepped :
          /\ frame[ix].ev = "integrate" /\ frame[ix].axis = "x"
          /\ frame[ix].vx # 0 /\ frame[ix].vy # 0
          /\ frame[ix].blocked /\ ~frame[ix + 1].blocked
          /\ \E ic \in Stepped :
                /\ frame[ic].ev = "check" /\ frame[ic].ent = frame[ix].ent
                /\ frame[ic].x = frame[ic].oldX /\ frame[ic].y # frame[ic].oldY
                /\ frame[ic].vx = 0 /\ frame[ic].vy = frame[ix].vy

----------------------------------------------------------------------------
\* Claims about the collision grid

Queried == lastQuery.op = "point"
GridLoaded == collisionData # NoData
OutOfBounds(x, y) ==
    Floor(x) < 0 \/ Floor(x) >= mapWidth \/ Floor(y) < 0 \/ Floor(y) >= mapHeight

\* C10: with a collision grid loaded, checkCollision(x, y) is true for every
\* coordinate whose floor lies outside [0,mapWidth) x [0,mapHeight), and inside
\* it is true exactly when collisionData[y*mapWidth+x] is 1; so on a grid built
\* from an all-red image it is true everywhere, and on a grid built from an
\* all-black image it is false in bounds and true out of bounds.
C10_PointOccupiedAsGridSays ==
    (Queried /\ GridLoaded) =>
        /\ OutOfBounds(lastQuery.x, lastQuery.y) => lastQuery.result
        /\ ~OutOfBounds(lastQuery.x, lastQuery.y) =>
              (lastQuery.result <=>
                 ByteAt(collisionData, Floor(lastQuery.y) * mapWidth + Floor(lastQuery.x)) = 1)
        /\ gridImage = AllRedImage => lastQuery.result
        /\ gridImage = AllBlackImage =>
              (lastQuery.result <=> OutOfBounds(lastQuery.x, lastQuery.y))

\* C14: the grid generateCollisionData builds has exactly one entry per pixel of
\* the collision image, each 0 or 1, and the entry at index y*width+x is 1 exactly
\* when that pixel's red channel is > 200 and its green and blue channels are
\* both < 10 (red = 200, green = 10 or blue = 10 give 0), whatever its alpha.
C14_GridIsRedThreshold ==
    GridLoaded =>
        /\ Len(collisionData) = gridImage.w * gridImage.h
        /\ \A x \in 0..(gridImage.w - 1), y \in 0..(gridImage.h - 1) :
              LET pixel == gridImage.px[y * gridImage.w + x + 1]
                  entry == collisionData[y * gridImage.w + x + 1]
              IN /\ entry \in {0, 1}
                 /\ entry = 1 <=> (pixel[1] > 200 /\ pixel[2] < 10 /\ pixel[3] < 10)
                 /\ (pixel[1] = 200 \/ pixel[2] = 10 \/ pixel[3] = 10) => entry = 0

\* a grid built from the image that holds the three near misses of the threshold
\* and a fully transparent red pixel
C14_Witness ==
    /\ GridLoaded
    /\ gridImage = MixedImage
    /\ collisionData = <<1, 0, 1, 0, 0, 0>>

\* C12: whenever the scene holds a collision grid, collisionData.length equals
\* mapWidth * mapHeight, the dimensions checkCollision bounds-checks and indexes
\* with: during a load, after a failed load, after a second or overlapping load,
\* and whatever the sizes of the two images.
C12_GridLengthIsWidthTimesHeight ==
    GridLoaded => Len(collisionData) = mapWidth * mapHeight

\* C13: while the scene has no collision grid (nothing loaded yet, or the load
\* failed), checkCollision and checkRectCollision answer false for every argument,
\* Scene.update reverts no entity and Player.update blocks neither axis.
C13_NoGridNoCollision ==
    /\ (collisionData = NoData /\ lastQuery.op \in {"point", "rect"}) => ~lastQuery.result
    /\ (Ran /\ frame[1].data = NoData) =>
          \A i \in Stepped :
              /\ frame[i].ev \notin {"revert", "onCollision"}
              /\ frame[i].ev = "check" =>
                    /\ ~frame[i].hit
                    /\ ents[frame[i].ent].x = frame[i].x
                    /\ ents[frame[i].ent].y = frame[i].y
              /\ (frame[i].ev = "integrate" /\ frame[i].axis \in {"x", "y"}) =>
                    ~frame[i].blocked
              /\ (frame[i].ev = "integrate" /\ frame[i].axis = "x") =>
                    LET e == frame[i].ent
                    IN /\ ents[e].x = frame[1].ents[e].x + frame[i].vx * frame[1].dt
                       /\ ents[e].y = frame[1].ents[e].y + frame[i].vy * frame[1].dt

\* the load has failed, a frame ran without a grid in which the player moved, and
\* a non-empty rectangle reaching out of the (absent) map has been asked about
C13_Witness ==
    /\ collisionData = NoData
    /\ lastSettled = "rejected"
    /\ Ran /\ frame[1].data = NoData
    /\ \E i \in Stepped : /\ frame[i].ev = "check" /\ frame[i].ent = "p1"
                            /\ frame[i].x # frame[i].oldX
    /\ \E i \in Stepped : /\ frame[i].ev = "check" /\ frame[i].ent = "e1"
                            /\ frame[i].x # frame[i].oldX
    /\ lastQuery.op = "rect" /\ lastQuery.width > 0 /\ lastQuery.height > 0
    /\ lastQuery.x < 0

\* this step settles a loadMap call as resolved: its second image has loaded
LoadResolvesNow ==
    \E i \in DOMAIN loads :
        /\ loads[i].mapsLoaded = 1 /\ loads[i].promise = "pending"
        /\ loads' = RemoveAt(loads, i)
        /\ lastSettled' = "resolved"

\* C37: the scene's map image, mapWidth, mapHeight and collision grid change only
\* together and only in the step in which a loadMap call succeeds (both images
\* loaded, the grid generated, the promise resolved); a loadMap that rejects
\* because an image fails to load leaves all four as they were before the call.
C37_MapAndGridChangeOnlyOnSuccess ==
    [][<<map, mapWidth, mapHeight, collisionData>>' # <<map, mapWidth, mapHeight, collisionData>>
          => LoadResolvesNow]_vars

RectQueried == lastQuery.op = "rect"

\* the pixels of the floored rectangle, its border as the two loops walk it, and
\* whether a pixel is occupied for checkCollision
RectPixels(q) ==
    (Floor(q.x)..(Floor(q.x) + Floor(q.width) - 1))
        \X (Floor(q.y)..(Floor(q.y) + Floor(q.height) - 1))
RectBorder(q) ==
    {<<i, r>> : i \in Floor(q.x)..(Floor(q.x) + Floor(q.width) - 1),
                r \in {Floor(q.y), Floor(q.y) + Floor(q.height) - 1}}
    \cup {<<c, j>> : c \in {Floor(q.x), Floor(q.x) + Floor(q.width) - 1},
                     j \in Floor(q.y)..(Floor(q.y) + Floor(q.height) - 1)}
PixelOccupied(p) == CheckCollision(p[1] * SubPixels, p[2] * SubPixels)

\* C11: with a collision grid loaded, checkRectCollision(x, y, w, h) is true exactly
\* when checkCollision is true for some pixel on the perimeter of the floored
\* rectangle (out of bounds counting as occupied); so it is true when an occupied
\* pixel lies on the border, false when the occupied pixels of the rectangle are
\* all strictly interior, and for any w, h >= 0 it examines no pixel outside the
\* rectangle.
C11_RectIsItsPerimeter ==
    (RectQueried /\ GridLoaded) =>
        /\ lastQuery.result <=> \E p \in RectBorder(lastQuery) : PixelOccupied(p)
        /\ (\E p \in RectPixels(lastQuery) \cap RectBorder(lastQuery) : PixelOccupied(p))
              => lastQuery.result
        /\ (\A p \in RectPixels(lastQuery) :
                PixelOccupied(p) => p \notin RectBorder(lastQuery)) => ~lastQuery.result
        /\ \A k \in DOMAIN lastQuery.examined :
              lastQuery.examined[k] \in RectPixels(lastQuery)

AreaQueried == lastQuery.op = "area"

\* the pixels of the query rectangle x <= px < x + w, y <= py < y + h after flooring
AreaPixels(q) ==
    (Floor(q.x)..(Floor(q.x) + Floor(q.width) - 1))
        \X (Floor(q.y)..(Floor(q.y) + Floor(q.height) - 1))

InGrid(p) == p[1] \in 0..(mapWidth - 1) /\ p[2] \in 0..(mapHeight - 1)

\* the coordinates in the list returned by the last area query
Returned == {lastQuery.result[k] : k \in DOMAIN lastQuery.result}

\* C29: getCollisionPixelsInArea(x, y, w, h) returns exactly the coordinates that
\* are inside the grid, inside the floored query rectangle (x <= px < x + w and
\* y <= py < y + h) and occupied, each once; it returns an empty list when no
\* collision grid is loaded and never returns an out-of-bounds coordinate.
C29_AreaListsOccupiedPixelsOfRectangle ==
    AreaQueried =>
        /\ GridLoaded =>
              /\ Returned = {p \in AreaPixels(lastQuery) : InGrid(p) /\ PixelOccupied(p)}
              /\ Cardinality(Returned) = Len(lastQuery.result)
        /\ ~GridLoaded => lastQuery.result = << >>
        /\ \A p \in Returned : InGrid(p)

\* the parts of C29 that do not depend on the far edges of the rectangle: every
\* occupied in-grid pixel of the rectangle is listed, nothing listed is
\* unoccupied, out of bounds or listed twice, and without a grid the list is empty
AreaListSoundUpToFarEdge ==
    AreaQueried =>
        /\ GridLoaded =>
              /\ {p \in AreaPixels(lastQuery) : InGrid(p) /\ PixelOccupied(p)}
                    \subseteq Returned
              /\ \A p \in Returned : PixelOccupied(p)
              /\ Cardinality(Returned) = Len(lastQuery.result)
        /\ ~GridLoaded => lastQuery.result = << >>
        /\ \A p \in Returned : InGrid(p)

----------------------------------------------------------------------------
\* Helpers for stating the Override claims

Last(s) == s[Len(s)]

RECURSIVE Reverse(_)
Reverse(s) == IF s = << >> THEN << >> ELSE Append(Reverse(Tail(s)), Head(s))

Called == lastCall.name # "none"

\* the call a hook registration r must produce: the hook, this = the behaviour instance
HookEntry(r, args) == [fn |-> r.hook, this |-> r.instance, args |-> args]

\* index of the last replace among the registrations rs, 0 when there is none
RECURSIVE LastReplace(_)
LastReplace(rs) ==
    IF rs = << >> THEN 0
    ELSE IF Last(rs).op = "replace" THEN Len(rs)
    ELSE LastReplace(SubSeq(rs, 1, Len(rs) - 1))

HookEntries(rs, args) == [i \in 1..Len(rs) |-> HookEntry(rs[i], args)]

\* C5: after a successful before(name, g) on a target whose method was f, a call
\* target[name](args) invokes g once with this = the behaviour instance and the
\* call's arguments, then f once with this = the target and the same arguments,
\* and returns f's result (g's result is discarded).
C5_BeforeRunsHookThenOriginal ==
    (Called /\ regs[lastCall.name] # << >> /\ Last(regs[lastCall.name]).op = "before") =>
        LET r == Last(regs[lastCall.name])
            f == Apply(r.prev, TheEntity, lastCall.args)
        IN /\ lastCall.log = << HookEntry(r, lastCall.args) >> \o f.log
           /\ lastCall.ret = f.ret

C5_Witness ==
    /\ Called
    /\ Len(regs[lastCall.name]) = 1
    /\ regs[lastCall.name][1].op = "before"
    /\ lastCall.log = << [fn |-> "g1", this |-> "inst1", args |-> lastCall.args],
                         [fn |-> lastCall.name, this |-> TheEntity, args |-> lastCall.args] >>
    /\ lastCall.ret = ReturnOf(lastCall.name)

\* C6: after a successful after(name, g) on a target whose method was f, a call
\* target[name](args) invokes f once with this = the target and the call's
\* arguments, then g once with this = the behaviour instance and the same
\* arguments, and returns the result f produced.
C6_AfterRunsOriginalThenHook ==
    (Called /\ regs[lastCall.name] # << >> /\ Last(regs[lastCall.name]).op = "after") =>
        LET r == Last(regs[lastCall.name])
            f == Apply(r.prev, TheEntity, lastCall.args)
        IN /\ lastCall.log = f.log \o << HookEntry(r, lastCall.args) >>
           /\ lastCall.ret = f.ret

C6_Witness ==
    /\ Called
    /\ Len(regs[lastCall.name]) = 1
    /\ regs[lastCall.name][1].op = "after"
    /\ lastCall.log = << [fn |-> lastCall.name, this |-> TheEntity, args |-> lastCall.args],
                         [fn |-> "g2", this |-> "inst2", args |-> lastCall.args] >>
    /\ lastCall.ret = ReturnOf(lastCall.name)

\* C7: after a successful replace(name, fn), a call target[name](args) invokes
\* only fn, with this = the behaviour instance and the call's arguments, and
\* returns fn's result: neither the previous method nor an earlier hook runs.
C7_ReplaceRunsOnlyReplacement ==
    (Called /\ regs[lastCall.name] # << >> /\ Last(regs[lastCall.name]).op = "replace") =>
        LET r == Last(regs[lastCall.name])
        IN /\ lastCall.log = << HookEntry(r, lastCall.args) >>
           /\ lastCall.ret = ReturnOf(r.hook)

\* a replace on top of an earlier before/after hook, then a call
C7_Witness ==
    /\ Called
    /\ Len(regs[lastCall.name]) >= 2
    /\ Last(regs[lastCall.name]).op = "replace"
    /\ regs[lastCall.name][1].op \in {"before", "after"}
    /\ Len(lastCall.log) = 1

\* C8: stacked registrations on one name: a call runs the before-hooks registered
\* since the last replace in reverse registration order, then the base method once
\* (the replacement with this = its instance, or the original with this = the
\* target when there was no replace), then the after-hooks registered since the
\* last replace in registration order, and returns the base method's result.
C8_ChainOrder ==
    Called =>
        LET rs == regs[lastCall.name]
            k == LastReplace(rs)
            suffix == SubSeq(rs, k + 1, Len(rs))
            befores == SelectSeq(suffix, LAMBDA r : r.op = "before")
            afters == SelectSeq(suffix, LAMBDA r : r.op = "after")
            base == IF k = 0
                    THEN [fn |-> lastCall.name, this |-> TheEntity, args |-> lastCall.args]
                    ELSE HookEntry(rs[k], lastCall.args)
        IN /\ lastCall.log = Reverse(HookEntries(befores, lastCall.args))
                                \o << base >> \o HookEntries(afters, lastCall.args)
           /\ lastCall.ret = ReturnOf(base.fn)

\* before, after, before stacked by two behaviours on one method, then a call
C8_Witness ==
    /\ Called
    /\ Len(regs[lastCall.name]) = 3
    /\ regs[lastCall.name][1].op = "before"
    /\ regs[lastCall.name][2].op = "after"
    /\ regs[lastCall.name][3].op = "before"
    /\ regs[lastCall.name][1].instance # regs[lastCall.name][3].instance
    /\ Len(lastCall.log) = 4

\* C9: before/after/replace return false and leave every property of the target
\* unchanged when the target is absent, the name is not a string, or target[name]
\* is not a function; in every other case they return true, target[name] is a
\* new function and every other property is unchanged.
C9_FalseAndNoMutationUnlessCallable ==
    (lastOp.op # "none") =>
        LET bad == \/ lastOp.ov.entity = NoEntity
                   \/ ~IsString(lastOp.name)
                   \/ ~IsFunction(Get(lastOp.pre, lastOp.name))
        IN /\ lastOp.ret = ~bad
           /\ bad => target = lastOp.pre
           /\ ~bad => /\ target[lastOp.name] # lastOp.pre[lastOp.name]
                      /\ IsFunction(target[lastOp.name])
                      /\ \A p \in PropNames \ {lastOp.name} : target[p] = lastOp.pre[p]

\* a refused registration on a target that already carries a hook
C9_Witness ==
    /\ lastOp.op # "none"
    /\ lastOp.ret = FALSE
    /\ lastOp.name = "x"
    /\ lastOp.ov.entity = TheEntity
    /\ target # TargetInit

====
